---- MODULE Spec2Model ----
(***************************************************************************)
(* Model of the transaction classifier: the rule engine and the AI         *)
(* dispatcher of BusinessLayer (src/src/layers/business_layer.py), the     *)
(* decision log (src/src/utils/ai_decision_logger.py), the direction       *)
(* mapping of TrustedLayer (src/src/layers/trusted_layer.py) and the       *)
(* request handlers of src/app.py that publish and edit the table.         *)
(***************************************************************************)
EXTENDS Integers, Sequences, FiniteSets, TLC

(***************************************************************************)
(* Bounds of the model.                                                    *)
(***************************************************************************)
\* Largest number of rows of an input table.
MaxTx == 3
\* Rows per chunk of the dispatcher. The code uses 50 (business_layer.py:330);
\* the model scales it down so that tables span several chunks.
ChunkSize == 2
\* Largest max_concurrency a BusinessLayer is constructed with.
MaxLimit == 2
\* Largest number of words of a description handed to the rule engine alone.
MaxTokens == 2
\* Largest number of /api/save requests after a run.
MaxSaves == 1
\* process_files requests served by one server process
MaxRuns == 2
\* Largest number of rows of a table handed to the analyzer.
MaxRows == 3
\* Largest number of reports generated from one table.
MaxReports == 2
\* Latest time, in seconds, of a call of the analyzer.
MaxClock == 1
\* The largest table calculate_dre and calculate_dfc are applied to alone.
MaxLines == 3
\* The largest table generate_summary is applied to alone.
MaxSummaryRows == 6
\* The largest table uploaded before a report is requested.
MaxUploadRows == 2
\* The default of BusinessLayer's max_concurrency, which process_files uses.
DefaultMaxConcurrency == 6

(***************************************************************************)
(* Values.                                                                 *)
(***************************************************************************)
\* Python's None / a pandas missing value in a category or explanation cell.
NULL == "<None>"

\* The words descriptions are made of. A description is a set of words: the
\* upper-case keywords of the rules, lower- and mixed-case spellings, words
\* that contain a keyword as a substring, a neutral word, and the text "nan"
\* that str() gives for a missing (NaN) description.
Keywords ==
    { "BODY STATION ACADEMIA", "J E MADEIRA A", "RENDE FACIL", "RENDE FÁCIL",
      "PIX", "TED", "REDE", "CARTAO", "CARTÃO", "GYMPASS", "SEGURO",
      "CONSORCIO", "CONSÓRCIO", "OUROCAP", "INVEST" }

Vocabulary ==
    Keywords \cup { "pix", "rende fácil", "Gympass", "CREDENCIADO",
                    "investimento", "LOJA", "nan" }

\* str.upper() on one word.
Upper(w) ==
    CASE w = "pix"          -> "PIX"
      [] w = "rende fácil"  -> "RENDE FÁCIL"
      [] w = "Gympass"      -> "GYMPASS"
      [] w = "investimento" -> "INVESTIMENTO"
      [] w = "nan"          -> "NAN"
      [] OTHER              -> w

\* The keywords that occur as a substring of an upper-case word.
SubstringsOf(w) ==
    CASE w = "CREDENCIADO"  -> {"REDE"}
      [] w = "INVESTIMENTO" -> {"INVEST"}
      [] w \in Keywords     -> {w}
      [] OTHER              -> {}

\* A description cell: text (a set of words), None, or NaN (what
\* Series.str.strip() leaves for a missing memo).
TextDesc(ws) == [kind |-> "text", words |-> ws]
NoneDesc == [kind |-> "none", words |-> {}]
NaNDesc == [kind |-> "nan", words |-> {}]

\* str(row.get("descricao", "") or "").upper(): the upper-case words of the
\* text the rules look at. None and "" are falsy and give ""; NaN is truthy
\* and gives "NAN".
UpperDesc(d) ==
    CASE d.kind = "none" -> {}
      [] d.kind = "nan"  -> {Upper("nan")}
      [] OTHER           -> {Upper(w) : w \in d.words}

\* Python's `kw in desc` on the upper-cased description.
In(kw, desc) == \E w \in desc : kw \in SubstringsOf(w)

\* TrustedLayer.transform_data: origem from the OFX transaction type.
OrigemOfSwapped(tipo) ==
    CASE tipo = "credit" -> "CAP"
      [] tipo = "debit"  -> "CAR"
      [] tipo = "dep"    -> "CAR"
      [] OTHER           -> "DESCONHECIDO"

OrigemOf(tipo) ==
    CASE tipo = "credit" -> "CAR"
      [] tipo = "debit"  -> "CAP"
      [] tipo = "dep"    -> "CAR"
      [] OTHER           -> "DESCONHECIDO"

TiposTransacao == {"credit", "debit", "dep", "xfer"}

(***************************************************************************)
(* The rule engine: BusinessLayer.regras_pre_classificacao.                *)
(***************************************************************************)
Decision(cat, expl) == [classificacao_sugerida |-> cat, explicacao |-> expl]

\* The return value None.
NoDecision == Decision(NULL, NULL)

\* One entry of the decision log, as log_classification_decision builds it.
LogEntry(tid, input, decision, method) ==
    [type |-> "classification", transaction_id |-> tid, input |-> input,
     decision |-> decision, method |-> method]

\* row.get("index", -1): -1 for a row of a table that has no "index" column.
TransactionId(row) == IF "index" \in DOMAIN row THEN row.index ELSE -1

\* The input snapshot the rules and the error path log.
InputOf(row) ==
    [descricao |-> row.descricao, origem |-> row.origem, valor |-> row.valor]

\* What regras_pre_classificacao does: `result` is what it returns and
\* `logs` the entries it appends to the decision log on the way.
RuleOutcome(result, logs) == [result |-> result, logs |-> logs]

Logged(row, result, log_decision) ==
    RuleOutcome(result,
        IF log_decision
        THEN << LogEntry(TransactionId(row), InputOf(row), result, "rule") >>
        ELSE << >>)

regras_pre_classificacao_cartao_first(row, log_decision) ==
    LET desc == UpperDesc(row.descricao) IN
    IF In("BODY STATION ACADEMIA", desc) \/ In("J E MADEIRA A", desc)
    THEN IF row.origem = "CAR"
         THEN Logged(row, Decision("(+) Transferencia Entre Contas",
                  "Transferência entre contas próprias identificada (entrada)"),
                  log_decision)
         ELSE Logged(row, Decision("(-) Transferencia Entre Contas",
                  "Transferência entre contas próprias identificada (saída)"),
                  log_decision)
    ELSE IF In("RENDE FACIL", desc) \/ In("RENDE FÁCIL", desc)
    THEN IF row.origem = "CAR"
         THEN Logged(row, Decision("Resgate Aplicação Financeira",
                  "Resgate de aplicação financeira identificado"), log_decision)
         ELSE Logged(row, Decision("0.006 - Aplicação Financeira",
                  "Aplicação financeira identificada"), log_decision)
    ELSE IF In("REDE", desc) \/ In("CARTAO", desc) \/ In("CARTÃO", desc)
    THEN RuleOutcome(Decision("Receita com Venda de Serviços",
             "Recebimento via cartão/maquininha"), << >>)
    ELSE IF In("PIX", desc) \/ In("TED", desc)
    THEN IF row.origem = "CAP"
         THEN RuleOutcome(Decision("Saída de Transferência",
                  "Transferência genérica identificada (saída)"), << >>)
         ELSE RuleOutcome(Decision("Entrada de Transferência",
                  "Transferência genérica identificada (entrada)"), << >>)
    ELSE IF In("GYMPASS", desc)
    THEN RuleOutcome(Decision("Gympass", "Receita Gympass identificada"), << >>)
    ELSE IF In("SEGURO", desc)
    THEN RuleOutcome(Decision("Seguros", "Seguro identificado na descrição"), << >>)
    ELSE IF In("CONSORCIO", desc) \/ In("CONSÓRCIO", desc)
    THEN RuleOutcome(Decision("Consórcios",
             "Consórcio identificado na descrição"), << >>)
    ELSE IF \E k \in {"OUROCAP", "INVEST"} : In(k, desc)
    THEN RuleOutcome(Decision("Investimento",
             "Investimento identificado na descrição"), << >>)
    ELSE RuleOutcome(NoDecision, << >>)

regras_pre_classificacao(row, log_decision) ==
    LET desc == UpperDesc(row.descricao) IN
    IF In("BODY STATION ACADEMIA", desc) \/ In("J E MADEIRA A", desc)
    THEN IF row.origem = "CAR"
         THEN Logged(row, Decision("(+) Transferencia Entre Contas",
                  "Transferência entre contas próprias identificada (entrada)"),
                  log_decision)
         ELSE Logged(row, Decision("(-) Transferencia Entre Contas",
                  "Transferência entre contas próprias identificada (saída)"),
                  log_decision)
    ELSE IF In("RENDE FACIL", desc) \/ In("RENDE FÁCIL", desc)
    THEN IF row.origem = "CAR"
         THEN Logged(row, Decision("Resgate Aplicação Financeira",
                  "Resgate de aplicação financeira identificado"), log_decision)
         ELSE Logged(row, Decision("0.006 - Aplicação Financeira",
                  "Aplicação financeira identificada"), log_decision)
    ELSE IF In("PIX", desc) \/ In("TED", desc)
    THEN IF row.origem = "CAP"
         THEN RuleOutcome(Decision("Saída de Transferência",
                  "Transferência genérica identificada (saída)"), << >>)
         ELSE RuleOutcome(Decision("Entrada de Transferência",
                  "Transferência genérica identificada (entrada)"), << >>)
    ELSE IF In("REDE", desc) \/ In("CARTAO", desc) \/ In("CARTÃO", desc)
    THEN RuleOutcome(Decision("Receita com Venda de Serviços",
             "Recebimento via cartão/maquininha"), << >>)
    ELSE IF In("GYMPASS", desc)
    THEN RuleOutcome(Decision("Gympass", "Receita Gympass identificada"), << >>)
    ELSE IF In("SEGURO", desc)
    THEN RuleOutcome(Decision("Seguros", "Seguro identificado na descrição"), << >>)
    ELSE IF In("CONSORCIO", desc) \/ In("CONSÓRCIO", desc)
    THEN RuleOutcome(Decision("Consórcios",
             "Consórcio identificado na descrição"), << >>)
    ELSE IF \E k \in {"OUROCAP", "INVEST"} : In(k, desc)
    THEN RuleOutcome(Decision("Investimento",
             "Investimento identificado na descrição"), << >>)
    ELSE RuleOutcome(NoDecision, << >>)

(***************************************************************************)
(* The closed category set and the external classifier.                    *)
(***************************************************************************)
\* Every category a rule can assign.
RuleCategories ==
    { "(+) Transferencia Entre Contas", "(-) Transferencia Entre Contas",
      "Resgate Aplicação Financeira", "0.006 - Aplicação Financeira",
      "Saída de Transferência", "Entrada de Transferência",
      "Receita com Venda de Serviços", "Gympass", "Seguros", "Consórcios",
      "Investimento" }

\* regra["contexto"]["classes_permitidas"]: read from the rules file at
\* construction. The file is configuration; the model takes the categories
\* of the rules and one more category only the classifier assigns.
classes_permitidas == RuleCategories \cup {"Outros"}

Sentinel == "Nao classificado"

\* The Literal[tuple(classes_permitidas)] field of ClassificacaoTransacao:
\* the structured-output layer of the chain accepts a response only if its
\* category is one of the allowed classes.
ClassificacaoTransacaoAcceptsAll(r) == TRUE

ClassificacaoTransacaoValid(r) ==
    r.classificacao_sugerida \in classes_permitidas

\* What the model behind the chain may answer, before validation.
RawResponses ==
    { Decision("Outros", "explicação da IA"),
      Decision("Categoria Inventada", "explicação da IA") }

\* How chain.ainvoke ends: it returns a response, or it raises.
ChainOutcomes ==
    [kind : {"response"}, response : RawResponses, reason : {NULL}]
      \cup [kind : {"raise"}, response : {NoDecision}, reason : {"ConnectionError"}]

NotCalled == [kind |-> "none", response |-> NoDecision, reason |-> NULL]

\* The exception, if any, that the try block of classificar_transacao ends
\* with: the one ainvoke raised, the validation error of an out-of-set
\* response, or the TypeError of row['descricao'][:50] on a description
\* that is not text. NULL when the block runs to its return.
Failure(row, oc) ==
    IF oc.kind = "raise" THEN oc.reason
    ELSE IF ~ClassificacaoTransacaoValid(oc.response) THEN "ValidationError"
    ELSE IF row.descricao.kind # "text" THEN "TypeError"
    ELSE NULL

\* The except branch: the sentinel and the reason.
ErrorResultNoReason(reason) ==
    Decision(Sentinel, "Erro na classificação: ")

ErrorResult(reason) ==
    Decision(Sentinel, "Erro na classificação: " \o reason)

\* classificar_transacao from the return of ainvoke on: the decision it
\* returns and the entry it logs.
AfterAinvoke(row, oc) ==
    LET failure == Failure(row, oc) IN
    IF failure = NULL
    THEN RuleOutcome(oc.response,
             << LogEntry(TransactionId(row), InputOf(row), oc.response, "ai") >>)
    ELSE RuleOutcome(ErrorResult(failure),
             << LogEntry(TransactionId(row), InputOf(row),
                         ErrorResult(failure), "error") >>)

\* `if pre_class: return pre_class`: the classifier is called only for a
\* row no rule resolves.
NeedsAIAlways(row) == TRUE

NeedsAI(row) == regras_pre_classificacao(row, TRUE).result = NoDecision

(***************************************************************************)
(* Tables.                                                                 *)
(***************************************************************************)
\* A row as TrustedLayer hands it on: origem comes from the transaction type.
Row(desc, tipo, valor, cat, expl) ==
    [descricao |-> desc, origem |-> OrigemOf(tipo), valor |-> valor,
     classificacao_sugerida |-> cat, explicacao |-> expl]

\* The rows of the tables the dispatcher is run on: a row the own-account
\* rule resolves (and logs), a row the PIX rule resolves, a row no rule
\* resolves, a row whose description is missing, and a row that already
\* carries a category.
PipelineRows ==
    { Row(TextDesc({"BODY STATION ACADEMIA"}), "credit", 500, NULL, NULL),
      Row(TextDesc({"pix", "LOJA"}), "debit", -50, NULL, NULL),
      Row(TextDesc({"LOJA"}), "credit", 30, NULL, NULL),
      Row(NaNDesc, "debit", -10, NULL, NULL),
      Row(TextDesc({"LOJA"}), "credit", 30, "Outros", "classificada antes") }

Tables == UNION { [1..n -> PipelineRows] : n \in 0..MaxTx }

\* The sets of at most n words.
RECURSIVE WordSets(_)
WordSets(n) ==
    IF n = 0 THEN {{}}
    ELSE LET P == WordSets(n - 1) IN
         P \cup { s \cup {w} : s \in P, w \in Vocabulary }

\* The raw transactions the rule engine is applied to on its own: any
\* description of at most MaxTokens words, or a missing one, with any
\* transaction type.
RawTransaction(desc, tipo) ==
    [descricao |-> desc, tipo_transacao |-> tipo, valor |-> 100]

RuleRows ==
    { RawTransaction(d, tipo) :
        d \in {TextDesc(ws) : ws \in WordSets(MaxTokens)} \cup {NoneDesc, NaNDesc},
        tipo \in TiposTransacao }

\* TrustedLayer.transform_data on one raw transaction.
transform_data(raw) ==
    Row(raw.descricao, raw.tipo_transacao, raw.valor, NULL, NULL)

Min(a, b) == IF a < b THEN a ELSE b

(***************************************************************************)
(* State.                                                                  *)
(***************************************************************************)
VARIABLES
    pc,               \* where classificar_transacoes_df is: idle, running, done
    input,            \* the table the caller passed (never written)
    max_concurrency,  \* BusinessLayer.max_concurrency
    df,               \* the private copy classificar_transacoes_df works on
    indices,          \* df.index[mask_sem_class], in table order
    start,            \* the loop variable of the chunk loop
    st,               \* per task (position in indices): created, inflight, done
    sem,              \* free permits of the current chunk's semaphore
    out,              \* the result slots of the current asyncio.gather
    resultados,       \* the results of the finished chunks
    logger,           \* the global AIDecisionLogger
    decision_rows,    \* history: the table row each log entry was written for
    calls,            \* history: per row, the chain.ainvoke calls started
    computed,         \* history: per row, what classificar_transacao returned
    chain_out,        \* history: per row, how its chain.ainvoke ended
    current_df,       \* app.current_df
    saves,            \* number of /api/save requests served
    rule_row,         \* the raw transaction the rule engine is applied to
    rule_out,         \* what it returned and logged
    rule_applied,     \* whether it has been applied
    runs,             \* number of process_files requests started
    run_mark,         \* history: length of the decision log when the run began
    session_file,     \* what save_session last wrote to logger.session_file
    report_df,        \* the table the FinancialAnalyzer is applied to
    result,           \* what the last analyzer operation returned or raised
    reports,          \* the reports generate_full_report has returned so far
    clock,            \* datetime.now(), in seconds
    strict_min,       \* whether min() over texts and missing cells raises
    cached_report,    \* app.cached_report
    pdf               \* the report the last PDF was built from, and the
                      \* table current_df held at that request

pipeline_vars ==
    << pc, input, max_concurrency, df, indices, start, st, sem, out,
       resultados, logger, decision_rows, calls, computed, chain_out,
       current_df, saves >>

rule_vars == << rule_row, rule_out, rule_applied >>

session_vars == << runs, run_mark, session_file >>

analysis_vars == << report_df, result, reports, clock, strict_min >>

cache_vars == << cached_report, pdf >>

vars == << pipeline_vars, rule_vars, session_vars, analysis_vars, cache_vars >>

(***************************************************************************)
(* The decision log: AIDecisionLogger.                                     *)
(***************************************************************************)
\* No analyzer operation has been applied yet.
NoResult ==
    [op |-> "none", args |-> << >>, kind |-> "none", value |-> NULL,
     error |-> NULL]

\* AIDecisionLogger.__init__
NewLogger ==
    [decisions |-> << >>, total_decisions |-> 0, decision_types |-> << >>]

\* The same record operation with an unsynchronised counter: the entry is
\* appended and the per-method counter raised, the total is written back
\* from a stale read.
log_classification_decision_stale_total(L, entry) ==
    LET types == L.decision_types
        seen == IF entry.method \in DOMAIN types THEN types[entry.method] ELSE 0
    IN [decisions |-> Append(L.decisions, entry),
        total_decisions |-> IF L.total_decisions = 0 THEN 1 ELSE L.total_decisions,
        decision_types |->
            [m \in DOMAIN types \cup {entry.method} |->
                IF m = entry.method THEN seen + 1 ELSE types[m]]]

\* AIDecisionLogger.log_classification_decision
log_classification_decision(L, entry) ==
    LET types == L.decision_types
        seen == IF entry.method \in DOMAIN types THEN types[entry.method] ELSE 0
    IN [decisions |-> Append(L.decisions, entry),
        total_decisions |-> L.total_decisions + 1,
        decision_types |->
            [m \in DOMAIN types \cup {entry.method} |->
                IF m = entry.method THEN seen + 1 ELSE types[m]]]

\* The entries one call of classificar_transacao logs (none or one).
LogAll(L, logs) ==
    IF logs = << >> THEN L ELSE log_classification_decision(L, logs[1])

\* AIDecisionLogger.log_comparison_decision: the entry is appended and the
\* total is raised; the per-method counters are left alone.
log_comparison_decision(L, period_a, period_b, metrics) ==
    [L EXCEPT !.decisions =
                  Append(@, [type |-> "comparison", comparison_type |-> "monthly",
                             period_a |-> period_a, period_b |-> period_b,
                             metrics |-> metrics]),
              !.total_decisions = @ + 1]

\* What AIDecisionLogger.save_session writes to the session file: the
\* counters and every decision the logger holds.
NoFile ==
    [written |-> FALSE,
     metadata |-> [total_decisions |-> 0, decision_types |-> << >>],
     decisions |-> << >>]

save_session(L) ==
    [written |-> TRUE,
     metadata |-> [total_decisions |-> L.total_decisions,
                   decision_types |-> L.decision_types],
     decisions |-> L.decisions]

(***************************************************************************)
(* The dispatcher: classificar_transacoes_df and _gather_limit.            *)
(***************************************************************************)
\* df.index[df["classificacao_sugerida"].isna()]
UnclassifiedButFirst(t) ==
    LET Missing(i) == t[i].classificacao_sugerida = NULL /\ i > 1
    IN SelectSeq([i \in 1..Len(t) |-> i], Missing)

Unclassified(t) ==
    LET Missing(i) == t[i].classificacao_sugerida = NULL
    IN SelectSeq([i \in 1..Len(t) |-> i], Missing)

\* tasks[start:start + 50]
ChunkEnd == Min(start + ChunkSize, Len(indices))
InChunk(k) == k > start /\ k <= ChunkEnd
ChunkDoneTasks == { k \in 1..Len(indices) : InChunk(k) /\ st[k] = "done" }
AllDone == \A k \in 1..Len(indices) : InChunk(k) => st[k] = "done"

\* `async with sem`: a task enters when a permit is free.
CanAcquireAlways(s) == TRUE

CanAcquire(s) == s > 0

\* asyncio.gather returns the results in the order of the awaitables it was
\* given: the task at position pos of the chunk fills slot pos, whatever
\* number of tasks have finished before it.
GatherSlotByArrival(pos, arrived) == arrived + 1

GatherSlot(pos, arrived) == pos

EmptySlots(n) == [p \in 1..n |-> NoDecision]

\* process_files after the classification: the index column and the
\* publication of the table in the module-level current_df.
Published(t) ==
    [loaded |-> TRUE,
     rows |-> [i \in 1..Len(t) |->
                  [descricao |-> t[i].descricao, origem |-> t[i].origem,
                   valor |-> t[i].valor,
                   classificacao_sugerida |-> t[i].classificacao_sugerida,
                   explicacao |-> t[i].explicacao, index |-> i - 1]]]

NoTable == [loaded |-> FALSE, rows |-> << >>]

\* for idx, res in zip(indices, resultados): df.loc[idx, ...] = ...
Merge(t, idx, res) ==
    [i \in 1..Len(t) |->
        IF \E k \in 1..Min(Len(idx), Len(res)) : idx[k] = i
        THEN LET k == CHOOSE k \in 1..Min(Len(idx), Len(res)) : idx[k] = i
             IN [t[i] EXCEPT !.classificacao_sugerida = res[k].classificacao_sugerida,
                             !.explicacao = res[k].explicacao]
        ELSE t[i]]

\* cached_report = None, and no PDF built yet.
NoReport == [cached |-> FALSE, report |-> NULL]

NoPdf == [built |-> FALSE, report |-> NULL, table |-> << >>]

Init ==
    /\ pc = "idle"
    /\ input = << >>
    /\ max_concurrency = 0
    /\ df = << >>
    /\ indices = << >>
    /\ start = 0
    /\ st = << >>
    /\ sem = 0
    /\ out = << >>
    /\ resultados = << >>
    /\ logger = NewLogger
    /\ decision_rows = << >>
    /\ calls = << >>
    /\ computed = << >>
    /\ chain_out = << >>
    /\ current_df = NoTable
    /\ saves = 0
    /\ rule_row = RawTransaction(NoneDesc, "credit")
    /\ rule_out = RuleOutcome(NoDecision, << >>)
    /\ rule_applied = FALSE
    /\ runs = 0
    /\ run_mark = 0
    /\ session_file = NoFile
    /\ report_df = << >>
    /\ result = NoResult
    /\ reports = << >>
    /\ clock = 0
    /\ strict_min = FALSE
    /\ cached_report = NoReport
    /\ pdf = NoPdf

\* process_files up to the first suspension of classificar_transacoes_df:
\* the BusinessLayer is built, the table copied, the unclassified rows found
\* and the first chunk handed to _gather_limit. A table with nothing to
\* classify is returned and published at once.
Start(t, limit) ==
    /\ pc = "idle"
    /\ input' = t
    /\ max_concurrency' = limit
    /\ indices' = Unclassified(t)
    /\ start' = 0
    /\ st' = [k \in 1..Len(indices') |-> "created"]
    /\ resultados' = << >>
    /\ calls' = [i \in 1..Len(t) |-> 0]
    /\ computed' = [i \in 1..Len(t) |-> NoDecision]
    /\ chain_out' = [i \in 1..Len(t) |-> NotCalled]
    /\ df' = t
    /\ IF Len(indices') = 0
       THEN /\ pc' = "done"
            /\ current_df' = Published(t)
            /\ sem' = sem
            /\ out' = << >>
       ELSE /\ pc' = "running"
            /\ current_df' = current_df
            /\ sem' = limit
            /\ out' = EmptySlots(Min(ChunkSize, Len(indices')))
    /\ runs' = runs + 1
    /\ run_mark' = Len(logger.decisions)
    /\ session_file' = IF Len(indices') = 0 THEN save_session(logger)
                                            ELSE session_file
    /\ UNCHANGED << logger, decision_rows, saves, rule_vars, analysis_vars, cache_vars >>

\* One task of the chunk enters the semaphore and runs classificar_transacao
\* up to its first suspension: a row a rule resolves is finished on the spot
\* (the permit is taken and given back), any other row starts its
\* chain.ainvoke and keeps the permit.
TaskRun(k) ==
    /\ pc = "running"
    /\ k \in 1..Len(indices)
    /\ InChunk(k)
    /\ st[k] = "created"
    /\ CanAcquire(sem)
    /\ LET i == indices[k]
           row == df[i]
           ro == regras_pre_classificacao(row, TRUE)
       IN IF NeedsAI(row)
          THEN /\ st' = [st EXCEPT ![k] = "inflight"]
               /\ sem' = sem - 1
               /\ calls' = [calls EXCEPT ![i] = @ + 1]
               /\ UNCHANGED << out, logger, decision_rows, computed >>
          ELSE /\ st' = [st EXCEPT ![k] = "done"]
               /\ out' = [out EXCEPT
                            ![GatherSlot(k - start, Cardinality(ChunkDoneTasks))] =
                                ro.result]
               /\ logger' = LogAll(logger, ro.logs)
               /\ decision_rows' = decision_rows \o [p \in 1..Len(ro.logs) |-> i]
               /\ computed' = [computed EXCEPT ![i] = ro.result]
               /\ UNCHANGED << sem, calls >>
    /\ UNCHANGED << pc, input, max_concurrency, df, indices, start, resultados,
                    chain_out, current_df, saves, rule_vars, session_vars,
                    analysis_vars, cache_vars >>

\* A task that gives its permit back only when its call returns: a call
\* that raises leaves the semaphore one permit short.
AIResponseKeepsPermitOnRaise(k, oc) ==
    /\ pc = "running"
    /\ k \in 1..Len(indices)
    /\ st[k] = "inflight"
    /\ LET i == indices[k]
           r == AfterAinvoke(df[i], oc)
       IN /\ st' = [st EXCEPT ![k] = "done"]
          /\ sem' = IF oc.kind = "raise" THEN sem ELSE sem + 1
          /\ out' = [out EXCEPT
                       ![GatherSlot(k - start, Cardinality(ChunkDoneTasks))] =
                           r.result]
          /\ logger' = LogAll(logger, r.logs)
          /\ decision_rows' = decision_rows \o [p \in 1..Len(r.logs) |-> i]
          /\ computed' = [computed EXCEPT ![i] = r.result]
          /\ chain_out' = [chain_out EXCEPT ![i] = oc]
    /\ UNCHANGED << pc, input, max_concurrency, df, indices, start, resultados,
                    calls, current_df, saves, rule_vars, session_vars,
                    analysis_vars, cache_vars >>

\* The chain.ainvoke of one task ends (it returns or raises): the task logs,
\* returns its decision and gives its permit back.
AIResponse(k, oc) ==
    /\ pc = "running"
    /\ k \in 1..Len(indices)
    /\ st[k] = "inflight"
    /\ LET i == indices[k]
           r == AfterAinvoke(df[i], oc)
       IN /\ st' = [st EXCEPT ![k] = "done"]
          /\ sem' = sem + 1
          /\ out' = [out EXCEPT
                       ![GatherSlot(k - start, Cardinality(ChunkDoneTasks))] =
                           r.result]
          /\ logger' = LogAll(logger, r.logs)
          /\ decision_rows' = decision_rows \o [p \in 1..Len(r.logs) |-> i]
          /\ computed' = [computed EXCEPT ![i] = r.result]
          /\ chain_out' = [chain_out EXCEPT ![i] = oc]
    /\ UNCHANGED << pc, input, max_concurrency, df, indices, start, resultados,
                    calls, current_df, saves, rule_vars, session_vars,
                    analysis_vars, cache_vars >>

\* A dispatcher that streams its results: at the end of every chunk the
\* results so far are merged and the table published.
ChunkDonePublishing ==
    /\ pc = "running"
    /\ AllDone
    /\ ChunkEnd < Len(indices)
    /\ resultados' = resultados \o out
    /\ start' = start + ChunkSize
    /\ sem' = max_concurrency
    /\ out' = EmptySlots(Min(ChunkSize, Len(indices) - (start + ChunkSize)))
    /\ current_df' = Published(Merge(df, indices, resultados'))
    /\ UNCHANGED << pc, input, max_concurrency, df, indices, st, logger,
                    decision_rows, calls, computed, chain_out,
                    saves, rule_vars, session_vars, analysis_vars, cache_vars >>

\* asyncio.gather of a chunk that is not the last one returns: its results
\* are appended and the next chunk starts with a new semaphore.
ChunkDone ==
    /\ pc = "running"
    /\ AllDone
    /\ ChunkEnd < Len(indices)
    /\ resultados' = resultados \o out
    /\ start' = start + ChunkSize
    /\ sem' = max_concurrency
    /\ out' = EmptySlots(Min(ChunkSize, Len(indices) - (start + ChunkSize)))
    /\ UNCHANGED << pc, input, max_concurrency, df, indices, st, logger,
                    decision_rows, calls, computed, chain_out, current_df,
                    saves, rule_vars, session_vars, analysis_vars, cache_vars >>

\* asyncio.gather of the last chunk returns: the results are written into
\* the copy, the copy is returned, and process_files numbers and publishes it.
Finish ==
    /\ pc = "running"
    /\ AllDone
    /\ ChunkEnd = Len(indices)
    /\ resultados' = resultados \o out
    /\ df' = Merge(df, indices, resultados')
    /\ current_df' = Published(df')
    /\ pc' = "done"
    /\ session_file' = save_session(logger)
    /\ UNCHANGED << input, max_concurrency, indices, start, st, sem, out, logger,
                    decision_rows, calls, computed, chain_out, saves, rule_vars,
                    runs, run_mark, analysis_vars, cache_vars >>

(***************************************************************************)
(* /api/save.                                                              *)
(***************************************************************************)
\* The categories a save request may carry: the handler takes any string.
EditCategories == {"Outros", "Categoria Livre"}

\* The edits of one request: a category for one index value, which need not
\* be an index value of the table.
Edits ==
    UNION { [S -> EditCategories] :
              S \in { T \in SUBSET (0..MaxTx) : Cardinality(T) = 1 } }

\* api_save: every edit whose index is in the table replaces the category of
\* that row.
ApiSave(edits) ==
    /\ current_df.loaded
    /\ saves < MaxSaves
    /\ saves' = saves + 1
    /\ current_df' =
         [current_df EXCEPT !.rows =
            [i \in 1..Len(current_df.rows) |->
                IF current_df.rows[i].index \in DOMAIN edits
                THEN [current_df.rows[i] EXCEPT
                        !.classificacao_sugerida = edits[current_df.rows[i].index]]
                ELSE current_df.rows[i]]]
    /\ UNCHANGED << pc, input, max_concurrency, df, indices, start, st, sem, out,
                    resultados, logger, decision_rows, calls, computed,
                    chain_out, rule_vars, session_vars, analysis_vars, cache_vars >>

Next ==
    \/ \E t \in Tables, limit \in 1..MaxLimit : Start(t, limit)
    \/ \E k \in 1..MaxTx : TaskRun(k)
    \/ \E k \in 1..MaxTx, oc \in ChainOutcomes : AIResponse(k, oc)
    \/ ChunkDone
    \/ Finish

Spec == Init /\ [][Next]_vars

(***************************************************************************)
(* The web application: process_files runs the classification with a       *)
(* BusinessLayer of default max_concurrency, and /api/save edits the       *)
(* published table.                                                        *)
(***************************************************************************)
\* The rows of an uploaded statement: none carries a category, since the
\* ingestion writes no category column.
AppRows ==
    { Row(TextDesc({"pix", "LOJA"}), "debit", -50, NULL, NULL),
      Row(TextDesc({"LOJA"}), "credit", 30, NULL, NULL) }

\* Uploaded tables span at most two chunks.
AppTables == UNION { [1..n -> AppRows] : n \in 0..(ChunkSize + 1) }

NextApp ==
    \/ \E t \in AppTables : Start(t, DefaultMaxConcurrency)
    \/ \E k \in 1..MaxTx : TaskRun(k)
    \/ \E k \in 1..MaxTx, oc \in ChainOutcomes : AIResponse(k, oc)
    \/ ChunkDone
    \/ Finish
    \/ \E edits \in Edits : ApiSave(edits)

SpecApp == Init /\ [][NextApp]_vars

(***************************************************************************)
(* Several uploads in one server process: every process_files request      *)
(* builds a new BusinessLayer, and all of them log to the logger that       *)
(* get_logger created on its first call.                                   *)
(***************************************************************************)
\* Uploaded tables of a single chunk.
RunTables == UNION { [1..n -> AppRows] : n \in 0..ChunkSize }

\* process_files has answered; the server takes the next upload. Nothing
\* calls reset_logger, so the logger stays as the run left it.
NextUpload ==
    /\ pc = "done"
    /\ runs < MaxRuns
    /\ pc' = "idle"
    /\ UNCHANGED << input, max_concurrency, df, indices, start, st, sem, out,
                    resultados, logger, decision_rows, calls, computed,
                    chain_out, current_df, saves, rule_vars, session_vars,
                    analysis_vars, cache_vars >>

NextRuns ==
    \/ \E t \in RunTables : Start(t, DefaultMaxConcurrency)
    \/ \E k \in 1..MaxTx : TaskRun(k)
    \/ \E k \in 1..MaxTx, oc \in ChainOutcomes : AIResponse(k, oc)
    \/ Finish
    \/ NextUpload

SpecRuns == Init /\ [][NextRuns]_vars

(***************************************************************************)
(* The rule engine on its own.                                             *)
(***************************************************************************)
InitRules ==
    /\ Init!1 /\ Init!2 /\ Init!3 /\ Init!4 /\ Init!5 /\ Init!6 /\ Init!7
    /\ Init!8 /\ Init!9 /\ Init!10 /\ Init!11 /\ Init!12 /\ Init!13 /\ Init!14
    /\ Init!15 /\ Init!16 /\ Init!17
    /\ rule_row \in RuleRows
    /\ rule_out = RuleOutcome(NoDecision, << >>)
    /\ rule_applied = FALSE
    /\ Init!21 /\ Init!22 /\ Init!23 /\ Init!24 /\ Init!25 /\ Init!26 /\ Init!27
    /\ Init!28 /\ Init!29 /\ Init!30

\* One call of regras_pre_classificacao with log_decision at its default:
\* what it returns, and what it appends to the global logger on the way.
ApplyRules ==
    /\ ~rule_applied
    /\ rule_out' = regras_pre_classificacao(transform_data(rule_row), TRUE)
    /\ rule_applied' = TRUE
    /\ logger' = LogAll(logger, rule_out'.logs)
    /\ UNCHANGED << pc, input, max_concurrency, df, indices, start, st, sem, out,
                    resultados, decision_rows, calls, computed, chain_out,
                    current_df, saves, rule_row, session_vars, analysis_vars, cache_vars >>

NextRules == ApplyRules

SpecRules == InitRules /\ [][NextRules]_vars

(***************************************************************************)
(* The financial analyzer: FinancialAnalyzer.                              *)
(***************************************************************************)
\* A date cell: the text "dd/mm/yyyy" that RawLayer writes, or None.
DateText(d, m, y) == [kind |-> "text", day |-> d, month |-> m, year |-> y]
NoDate == [kind |-> "none", day |-> 0, month |-> 0, year |-> 0]

DaysIn(m, y) ==
    CASE m \in {4, 6, 9, 11} -> 30
      [] m = 2 -> IF y % 4 = 0 /\ (y % 100 # 0 \/ y % 400 = 0) THEN 29 ELSE 28
      [] OTHER -> 31

\* pd.to_datetime(..., format='%d/%m/%Y', errors='coerce'): a timestamp for
\* a text that is a calendar date, NaT for any other text and for None.
NaT == [nat |-> TRUE, day |-> 0, month |-> 0, year |-> 0]

to_datetime(data) ==
    IF /\ data.kind = "text"
       /\ data.month \in 1..12
       /\ data.day \in 1..DaysIn(data.month, data.year)
    THEN [nat |-> FALSE, day |-> data.day, month |-> data.month,
          year |-> data.year]
    ELSE NaT

\* Series.dt.to_period('M'): the calendar month of a timestamp; NaT stays NaT.
to_period(ts) == [ts EXCEPT !.day = 0]

\* str() of a monthly period, also what .astype(str) gives: "YYYY-MM", and
\* the text "NaT" for NaT.
PeriodStr(p) ==
    IF p.nat THEN "NaT"
    ELSE ToString(p.year) \o "-" \o
         (IF p.month < 10 THEN "0" ELSE "") \o ToString(p.month)

\* The months of the years the dates of the model fall in.
Periods == { [nat |-> FALSE, day |-> 0, month |-> m, year |-> y] :
                m \in 1..12, y \in {2024, 2025} }

\* The order of Python's str on the texts PeriodStr gives: year and month
\* are zero padded, so two months compare as (year, month), and "NaT" comes
\* after every month since "N" follows the digits.
StrRank(s) ==
    IF s = "NaT" THEN 10000 * 12
    ELSE LET p == CHOOSE q \in Periods : PeriodStr(q) = s
         IN p.year * 12 + p.month

\* Period objects order by time.
PeriodRank(p) == p.year * 12 + p.month

\* sorted(S), for a set S and the function that ranks its elements.
RECURSIVE Sorted(_, _)
Sorted(S, rank) ==
    IF S = {} THEN << >>
    ELSE LET least == CHOOSE x \in S : \A y \in S : rank[x] <= rank[y]
         IN << least >> \o Sorted(S \ {least}, rank)

SortedStr(S) == Sorted(S, [s \in S |-> StrRank(s)])

\* The group keys of a groupby on a column of periods: the periods that
\* occur in the column, in ascending order.
SortedPeriodsFilled(S) ==
    LET filled == { p \in Periods :
                      /\ \E lo \in S : PeriodRank(lo) <= PeriodRank(p)
                      /\ \E hi \in S : PeriodRank(p) <= PeriodRank(hi) }
    IN Sorted(filled, [p \in filled |-> PeriodRank(p)])

SortedPeriods(S) == Sorted(S, [p \in S |-> PeriodRank(p)])

RECURSIVE SumSeq(_)
SumSeq(s) == IF s = << >> THEN 0 ELSE Head(s) + SumSeq(Tail(s))

Abs(x) == IF x < 0 THEN -x ELSE x

\* A description of more than 50 characters.
LongText == "PAGAMENTO DE BOLETO FORNECEDOR DISTRIBUIDORA CENTRAL LTDA"

\* A row of a classified table, as the analyzer reads it.
ReportRow(data, desc, valor, cat) ==
    [data |-> data, descricao |-> desc, valor |-> valor,
     classificacao_sugerida |-> cat]

\* The rows of the tables the analyzer is applied to: revenue and costs in
\* several months, a row without a date and without a description, and a
\* row whose date is no calendar date and whose category has no account.
ReportRows ==
    { ReportRow(DateText(15, 12, 2024), TextDesc({"LOJA"}), 500,
                "3.01 - Receita de Vendas"),
      ReportRow(DateText(10, 1, 2025), TextDesc({"LOJA"}), -40,
                "4.01 - Custo de Mercadorias"),
      ReportRow(DateText(20, 1, 2025), TextDesc({"pix", "LOJA"}), 30,
                "3.01 - Receita de Vendas"),
      ReportRow(DateText(20, 1, 2025), TextDesc({"LOJA"}), -5,
                "3.02 - Impostos sobre Vendas"),
      ReportRow(DateText(5, 3, 2025), TextDesc({LongText}), -10,
                "5.01 - Despesas Administrativas"),
      ReportRow(NoDate, NaNDesc, 70, Sentinel),
      ReportRow(DateText(31, 2, 2025), TextDesc({"Gympass"}), -20, "Gympass") }

ReportTables == UNION { [1..n -> ReportRows] : n \in 0..MaxRows }

\* df['mes_ano'] of analyze_monthly_trend: the month of each row, NaT for a
\* row whose date did not parse.
MesAno(t, i) == to_period(to_datetime(t[i].data))

\* df['mes_ano'] of compare_months and get_all_month_comparisons, where the
\* column is converted with .astype(str).
MesAnoStr(t, i) == PeriodStr(MesAno(t, i))

\* Series.sum() of the valor column over the rows I of t.
RECURSIVE SumValor(_, _)
SumValor(t, I) ==
    IF I = {} THEN 0
    ELSE LET i == CHOOSE j \in I : TRUE
         IN t[i].valor + SumValor(t, I \ {i})

Positive(t, I) == { i \in I : t[i].valor > 0 }
Negative(t, I) == { i \in I : t[i].valor < 0 }

\* A trend whose balance is the running balance up to and including the
\* month, instead of the balance of the month.
analyze_monthly_trend_running_balance(t) ==
    LET kept == { i \in 1..Len(t) : ~MesAno(t, i).nat }
        meses == SortedPeriods({ MesAno(t, i) : i \in kept })
    IN [g \in 1..Len(meses) |->
          LET rows == { i \in kept : MesAno(t, i) = meses[g] }
              upto == { i \in kept : \E h \in 1..g : MesAno(t, i) = meses[h] }
          IN [mes |-> PeriodStr(meses[g]),
              receita |-> SumValor(t, Positive(t, rows)),
              despesa |-> Abs(SumValor(t, Negative(t, rows))),
              saldo |-> SumValor(t, upto)]]

\* analyze_monthly_trend: the rows without a month are dropped, the others
\* grouped by month (groupby sorts the group keys), one point per group.
analyze_monthly_trend(t) ==
    LET kept == { i \in 1..Len(t) : ~MesAno(t, i).nat }
        meses == SortedPeriods({ MesAno(t, i) : i \in kept })
    IN [g \in 1..Len(meses) |->
          LET rows == { i \in kept : MesAno(t, i) = meses[g] }
          IN [mes |-> PeriodStr(meses[g]),
              receita |-> SumValor(t, Positive(t, rows)),
              despesa |-> Abs(SumValor(t, Negative(t, rows))),
              saldo |-> SumValor(t, rows)]]

\* (b - a) / base * 100, which the code computes in floating point; the
\* model keeps the integer part.
Pct(delta, base) == (delta * 100) \div base

\* What compare_months returns when a month has no rows.
NoComparison == [kind |-> "None"]

\* What an analyzer operation returns together with the comparisons it
\* hands to logger.log_comparison_decision on the way.
Outcome(value, logs) == [value |-> value, logs |-> logs]

\* A compare_months whose balance variation is guarded like the revenue
\* and expense variations: 0 unless the balance of month A is positive.
compare_months_positive_base(t, month_a, month_b) ==
    LET rows_a == { i \in 1..Len(t) : MesAnoStr(t, i) = month_a }
        rows_b == { i \in 1..Len(t) : MesAnoStr(t, i) = month_b }
        receita_a == SumValor(t, Positive(t, rows_a))
        receita_b == SumValor(t, Positive(t, rows_b))
        despesa_a == Abs(SumValor(t, Negative(t, rows_a)))
        despesa_b == Abs(SumValor(t, Negative(t, rows_b)))
        saldo_a == receita_a - despesa_a
        saldo_b == receita_b - despesa_b
        comparison ==
            [kind |-> "comparison",
             period_a |-> [mes |-> month_a, receita |-> receita_a,
                           despesa |-> despesa_a, saldo |-> saldo_a,
                           num_transacoes |-> Cardinality(rows_a)],
             period_b |-> [mes |-> month_b, receita |-> receita_b,
                           despesa |-> despesa_b, saldo |-> saldo_b,
                           num_transacoes |-> Cardinality(rows_b)],
             variations |->
                [receita_pct |-> IF receita_a > 0
                                 THEN Pct(receita_b - receita_a, receita_a) ELSE 0,
                 receita_abs |-> receita_b - receita_a,
                 despesa_pct |-> IF despesa_a > 0
                                 THEN Pct(despesa_b - despesa_a, despesa_a) ELSE 0,
                 despesa_abs |-> despesa_b - despesa_a,
                 saldo_pct |-> IF saldo_a > 0
                               THEN Pct(saldo_b - saldo_a, saldo_a) ELSE 0,
                 saldo_abs |-> saldo_b - saldo_a]]
    IN IF rows_a = {} \/ rows_b = {}
       THEN Outcome(NoComparison, << >>)
       ELSE Outcome(comparison, << comparison >>)

\* compare_months: None unless both months have rows; else the figures of
\* both months and their variations, which are also logged.
compare_months_zero_filled(t, month_a, month_b) ==
    LET rows_a == { i \in 1..Len(t) : MesAnoStr(t, i) = month_a }
        rows_b == { i \in 1..Len(t) : MesAnoStr(t, i) = month_b }
        comparison ==
            [kind |-> "comparison",
             period_a |-> [mes |-> month_a, receita |-> 0, despesa |-> 0,
                           saldo |-> 0, num_transacoes |-> Cardinality(rows_a)],
             period_b |-> [mes |-> month_b, receita |-> 0, despesa |-> 0,
                           saldo |-> 0, num_transacoes |-> Cardinality(rows_b)],
             variations |-> [receita_pct |-> 0, receita_abs |-> 0,
                             despesa_pct |-> 0, despesa_abs |-> 0,
                             saldo_pct |-> 0, saldo_abs |-> 0]]
    IN Outcome(comparison, << comparison >>)

compare_months(t, month_a, month_b) ==
    LET rows_a == { i \in 1..Len(t) : MesAnoStr(t, i) = month_a }
        rows_b == { i \in 1..Len(t) : MesAnoStr(t, i) = month_b }
        receita_a == SumValor(t, Positive(t, rows_a))
        receita_b == SumValor(t, Positive(t, rows_b))
        despesa_a == Abs(SumValor(t, Negative(t, rows_a)))
        despesa_b == Abs(SumValor(t, Negative(t, rows_b)))
        saldo_a == receita_a - despesa_a
        saldo_b == receita_b - despesa_b
        comparison ==
            [kind |-> "comparison",
             period_a |-> [mes |-> month_a, receita |-> receita_a,
                           despesa |-> despesa_a, saldo |-> saldo_a,
                           num_transacoes |-> Cardinality(rows_a)],
             period_b |-> [mes |-> month_b, receita |-> receita_b,
                           despesa |-> despesa_b, saldo |-> saldo_b,
                           num_transacoes |-> Cardinality(rows_b)],
             variations |->
                [receita_pct |-> IF receita_a > 0
                                 THEN Pct(receita_b - receita_a, receita_a) ELSE 0,
                 receita_abs |-> receita_b - receita_a,
                 despesa_pct |-> IF despesa_a > 0
                                 THEN Pct(despesa_b - despesa_a, despesa_a) ELSE 0,
                 despesa_abs |-> despesa_b - despesa_a,
                 saldo_pct |-> IF saldo_a # 0
                               THEN Pct(saldo_b - saldo_a, Abs(saldo_a)) ELSE 0,
                 saldo_abs |-> saldo_b - saldo_a]]
    IN IF rows_a = {} \/ rows_b = {}
       THEN Outcome(NoComparison, << >>)
       ELSE Outcome(comparison, << comparison >>)

\* get_all_month_comparisons: the distinct values of the mes_ano text
\* column, sorted as texts, and compare_months on every adjacent pair; the
\* comparisons that are not None are kept.
get_all_month_comparisons(t) ==
    LET meses == SortedStr({ MesAnoStr(t, i) : i \in 1..Len(t) })
        n == IF Len(meses) = 0 THEN 0 ELSE Len(meses) - 1
        each == [k \in 1..n |-> compare_months(t, meses[k], meses[k + 1])]
        Kept(o) == o.value # NoComparison
        kept == SelectSeq(each, Kept)
    IN Outcome([k \in 1..Len(kept) |-> kept[k].value],
               [k \in 1..Len(kept) |-> kept[k].logs[1]])

\* The logger after the comparisons of one operation have been logged.
RECURSIVE LogComparisons(_, _)
LogComparisons(L, logs) ==
    IF logs = << >> THEN L
    ELSE LogComparisons(
             log_comparison_decision(L, Head(logs).period_a.mes,
                                     Head(logs).period_b.mes, Head(logs)),
             Tail(logs))

\* self.plano_contas: the chart of accounts read from plano_de_contas.xlsx,
\* one line per account code with its income-statement and cash-flow
\* levels. A missing cell is NULL. The label of the first line carries a
\* trailing blank, as spreadsheet cells often do.
PlanLine(cod, dre_n1, dre_n2, dfc_n1, dfc_n2) ==
    [conta_cod |-> cod, dre_n1 |-> dre_n1, dre_n2 |-> dre_n2,
     dfc_n1 |-> dfc_n1, dfc_n2 |-> dfc_n2]

plano_contas ==
    { PlanLine("3.01", "Receita Bruta ", "Vendas", "Operacional", "Vendas"),
      PlanLine("3.02", "Receita Líquida", "Impostos", "Operacional", "Impostos"),
      PlanLine("4.01", "Lucro Bruto", "CMV", "Operacional", "CMV"),
      PlanLine("5.01", "Despesas Operacionais", "Despesas Administrativas",
               "Operacional", "Despesas Administrativas"),
      PlanLine("0.006", NULL, NULL, "Investimento", "Vendas"),
      PlanLine("3.03", "Receita Bruta", "Custo de Devolucoes",
               "Operacional", "Custo de Devolucoes"),
      PlanLine("3.04", "Receita Líquida", "Despesas com Frete",
               "Operacional", "Despesas com Frete"),
      PlanLine("4.02", "Lucro Bruto", "Despesas com Frete",
               "Operacional", "Despesas com Frete"),
      PlanLine("6.01", "Resultado Financeiro", "Juros", "Financiamento", "Juros"),
      PlanLine("6.02", "Resultado Financeiro", NULL, "Financiamento", NULL) }

\* extract_code: the text before " - ", or the whole text when it has none.
extract_code(classificacao) ==
    CASE classificacao = NULL -> NULL
      [] classificacao = "3.01 - Receita de Vendas" -> "3.01"
      [] classificacao = "3.02 - Impostos sobre Vendas" -> "3.02"
      [] classificacao = "4.01 - Custo de Mercadorias" -> "4.01"
      [] classificacao = "5.01 - Despesas Administrativas" -> "5.01"
      [] classificacao = "0.006 - Aplicação Financeira" -> "0.006"
      [] classificacao = "3.03 - Devolucoes de Vendas" -> "3.03"
      [] classificacao = "3.04 - Frete sobre Vendas" -> "3.04"
      [] classificacao = "4.02 - Frete sobre Compras" -> "4.02"
      [] classificacao = "6.01 - Juros Recebidos" -> "6.01"
      [] classificacao = "6.02 - Outros Resultados" -> "6.02"
      [] OTHER -> classificacao

\* enrich_with_plan: a copy of the table with the account code of each row
\* and, by a left merge on the code, the levels of its account (missing
\* when no account has the code). Account codes are unique in the plan.
enrich_with_plan(t) ==
    [i \in 1..Len(t) |->
        LET cod == extract_code(t[i].classificacao_sugerida)
            found == { l \in plano_contas : l.conta_cod = cod }
            l == IF found = {} THEN PlanLine(NULL, NULL, NULL, NULL, NULL)
                 ELSE CHOOSE x \in found : TRUE
        IN [data |-> t[i].data, descricao |-> t[i].descricao,
            valor |-> t[i].valor,
            classificacao_sugerida |-> t[i].classificacao_sugerida,
            codigo_conta |-> cod, conta_cod |-> l.conta_cod,
            dre_n1 |-> l.dre_n1, dre_n2 |-> l.dre_n2,
            dfc_n1 |-> l.dfc_n1, dfc_n2 |-> l.dfc_n2]]

\* str.strip() on a level label.
Strip(label) == IF label = "Receita Bruta " THEN "Receita Bruta" ELSE label

\* The keywords of calculate_dre and calculate_dfc that occur in a label.
LabelParts(label) ==
    CASE label \in {"Receita Bruta", "Receita Bruta "} -> {"Receita Bruta"}
      [] label = "Receita Líquida" -> {"Receita Líquida"}
      [] label = "Lucro Bruto" -> {"Lucro Bruto"}
      [] label = "CMV" -> {"CMV"}
      [] label = "Despesas Operacionais" -> {"Despesa"}
      [] label = "Despesas Administrativas" -> {"Despesa"}
      [] label = "Despesas com Frete" -> {"Despesa"}
      [] label = "Custo de Devolucoes" -> {"Custo"}
      [] label = "Financiamento" -> {"Financiamento"}
      [] label = "Operacional" -> {"Operacional"}
      [] label = "Investimento" -> {"Investimento"}
      [] OTHER -> {}

Has(kw, label) == kw \in LabelParts(label)

\* The labels in the order of Python's str, which groupby sorts its keys by.
LabelOrder ==
    << "CMV", "Custo de Devolucoes", "Despesas Administrativas",
       "Despesas Operacionais", "Despesas com Frete", "Financiamento",
       "Impostos", "Investimento", "Juros", "Lucro Bruto", "Operacional",
       "Receita Bruta", "Receita Bruta ", "Receita Líquida",
       "Resultado Financeiro", "Vendas" >>

LabelRank(label) == CHOOSE k \in 1..Len(LabelOrder) : LabelOrder[k] = label

\* groupby([n1, n2])['valor'].sum().reset_index() over the rows whose first
\* level is present: one line per pair of levels, sorted by the pair, rows
\* whose second level is missing left out; each line as the loop reads it,
\* with stripped labels.
Grouped(e, n1, n2) ==
    LET rows == { i \in 1..Len(e) : e[i][n1] # NULL /\ e[i][n2] # NULL }
        keys == { << e[i][n1], e[i][n2] >> : i \in rows }
        order == Sorted(keys, [k \in keys |->
                                  LabelRank(k[1]) * (Len(LabelOrder) + 1)
                                      + LabelRank(k[2])])
    IN [g \in 1..Len(order) |->
          [nivel1 |-> Strip(order[g][1]), nivel2 |-> Strip(order[g][2]),
           valor |-> SumValor(e, { i \in rows :
                                     << e[i][n1], e[i][n2] >> = order[g] })]]

\* A chain that tests the expense keyword before the cost keywords.
DreLineExpenseFirst(nivel1, nivel2) ==
    CASE Has("Receita Bruta", nivel1) -> "receita_bruta"
      [] ~Has("Receita Bruta", nivel1) /\ Has("Receita Líquida", nivel1) ->
            "deducoes"
      [] /\ ~Has("Receita Bruta", nivel1) /\ ~Has("Receita Líquida", nivel1)
         /\ (Has("Despesa", nivel1) \/ Has("Despesa", nivel2)) ->
            "despesas_operacionais"
      [] /\ ~Has("Receita Bruta", nivel1) /\ ~Has("Receita Líquida", nivel1)
         /\ ~(Has("Despesa", nivel1) \/ Has("Despesa", nivel2))
         /\ (Has("Lucro Bruto", nivel1) \/ Has("CMV", nivel2)
               \/ Has("Custo", nivel2)) -> "custos"
      [] OTHER -> "none"

\* The if/elif chain of calculate_dre: the line of the statement a group
\* is added to.
DreLine(nivel1, nivel2) ==
    CASE Has("Receita Bruta", nivel1) -> "receita_bruta"
      [] ~Has("Receita Bruta", nivel1) /\ Has("Receita Líquida", nivel1) ->
            "deducoes"
      [] /\ ~Has("Receita Bruta", nivel1) /\ ~Has("Receita Líquida", nivel1)
         /\ (Has("Lucro Bruto", nivel1) \/ Has("CMV", nivel2)
               \/ Has("Custo", nivel2)) -> "custos"
      [] /\ ~Has("Receita Bruta", nivel1) /\ ~Has("Receita Líquida", nivel1)
         /\ ~(Has("Lucro Bruto", nivel1) \/ Has("CMV", nivel2)
                \/ Has("Custo", nivel2))
         /\ (Has("Despesa", nivel1) \/ Has("Despesa", nivel2)) ->
            "despesas_operacionais"
      [] OTHER -> "none"

\* The sum of the amounts (or absolute amounts) of the groups added to one
\* line, lines[g] being the line group g is added to.
LineTotal(groups, lines, line, absolute) ==
    SumSeq([g \in 1..Len(groups) |->
               IF lines[g] = line
               THEN (IF absolute THEN Abs(groups[g].valor) ELSE groups[g].valor)
               ELSE 0])

\* calculate_dre on an enriched table: the detail lines, the lines of the
\* statement summed from them, receita_bruta replaced by the sum of the
\* positive amounts of all rows, and the totals derived from the lines.
calculate_dre_gross_margin(e) ==
    LET groups == Grouped(e, "dre_n1", "dre_n2")
        receita_bruta == SumValor(e, Positive(e, 1..Len(e)))
        lines == [g \in 1..Len(groups) |->
                     DreLine(groups[g].nivel1, groups[g].nivel2)]
        deducoes == LineTotal(groups, lines, "deducoes", TRUE)
        custos == LineTotal(groups, lines, "custos", TRUE)
        despesas == LineTotal(groups, lines, "despesas_operacionais", TRUE)
    IN [receita_bruta |-> receita_bruta, deducoes |-> deducoes,
        receita_liquida |-> receita_bruta - deducoes, custos |-> custos,
        lucro_bruto |-> receita_bruta - custos,
        despesas_operacionais |-> despesas,
        resultado_operacional |-> receita_bruta - custos - despesas,
        outras_receitas |-> 0, outras_despesas |-> 0,
        resultado_liquido |-> receita_bruta - custos - despesas,
        detalhamento |-> groups]

calculate_dre(e) ==
    LET groups == Grouped(e, "dre_n1", "dre_n2")
        receita_bruta == SumValor(e, Positive(e, 1..Len(e)))
        lines == [g \in 1..Len(groups) |->
                     DreLine(groups[g].nivel1, groups[g].nivel2)]
        deducoes == LineTotal(groups, lines, "deducoes", TRUE)
        custos == LineTotal(groups, lines, "custos", TRUE)
        despesas == LineTotal(groups, lines, "despesas_operacionais", TRUE)
        outras_receitas == 0
        outras_despesas == 0
        receita_liquida == receita_bruta - deducoes
        lucro_bruto == receita_liquida - custos
        resultado_operacional == lucro_bruto - despesas
    IN [receita_bruta |-> receita_bruta, deducoes |-> deducoes,
        receita_liquida |-> receita_liquida, custos |-> custos,
        lucro_bruto |-> lucro_bruto, despesas_operacionais |-> despesas,
        resultado_operacional |-> resultado_operacional,
        outras_receitas |-> outras_receitas,
        outras_despesas |-> outras_despesas,
        resultado_liquido |->
            resultado_operacional + outras_receitas - outras_despesas,
        detalhamento |-> groups]

\* The if/elif chain of calculate_dfc.
DfcLine(nivel1, nivel2) ==
    CASE Has("Operacional", nivel1) -> "operacional"
      [] ~Has("Operacional", nivel1) /\ Has("Investimento", nivel1) ->
            "investimento"
      [] /\ ~Has("Operacional", nivel1) /\ ~Has("Investimento", nivel1)
         /\ Has("Financiamento", nivel1) -> "financiamento"
      [] /\ ~Has("Operacional", nivel1) /\ ~Has("Investimento", nivel1)
         /\ ~Has("Financiamento", nivel1)
         /\ Has("Movimentação entre Contas", nivel1) -> "transferencias"
      [] OTHER -> "none"

\* calculate_dfc on an enriched table.
calculate_dfc(e) ==
    LET groups == Grouped(e, "dfc_n1", "dfc_n2")
        lines == [g \in 1..Len(groups) |->
                     DfcLine(groups[g].nivel1, groups[g].nivel2)]
        operacional == LineTotal(groups, lines, "operacional", FALSE)
        investimento == LineTotal(groups, lines, "investimento", FALSE)
        financiamento == LineTotal(groups, lines, "financiamento", FALSE)
        saldo_inicial == 0
    IN [operacional |-> operacional, investimento |-> investimento,
        financiamento |-> financiamento,
        transferencias |-> LineTotal(groups, lines, "transferencias", FALSE),
        saldo_inicial |-> saldo_inicial,
        saldo_final |-> saldo_inicial + operacional + investimento
                            + financiamento,
        detalhamento |-> groups]

\* What an operation gives its caller: a value, or an exception.
Value(v) == [kind |-> "value", value |-> v, error |-> NULL]
Raise(e) == [kind |-> "raise", value |-> NULL, error |-> e]

\* The order of Python's str on the date texts "dd/mm/yyyy": by day, then
\* month, then year.
DateTextRank(d) == (d.day * 100 + d.month) * 10000 + d.year

\* Series.min() and Series.max() of the data column over the rows I, by
\* the order of the texts; a missing date is skipped, and NoDate is the
\* answer when every date is missing.
MinData(t, I) ==
    LET present == { t[i].data : i \in { j \in I : t[j].data.kind = "text" } }
    IN IF present = {} THEN NoDate
       ELSE CHOOSE d \in present :
                \A o \in present : DateTextRank(d) <= DateTextRank(o)

MaxData(t, I) ==
    LET present == { t[i].data : i \in { j \in I : t[j].data.kind = "text" } }
    IN IF present = {} THEN NoDate
       ELSE CHOOSE d \in present :
                \A o \in present : DateTextRank(d) >= DateTextRank(o)

\* The texts of an object column do not compare with the float that stands
\* for a missing cell: with strict_min set, min() and max() over rows that
\* hold both raise TypeError instead of skipping the missing cell.
MixedData(t, I) ==
    /\ \E i \in I : t[i].data.kind = "none"
    /\ \E i \in I : t[i].data.kind = "text"

\* The categories in the order of Python's str.
CategoryOrder ==
    << "(+) Transferencia Entre Contas", "(-) Transferencia Entre Contas",
       "0.006 - Aplicação Financeira", "3.01 - Receita de Vendas",
       "3.02 - Impostos sobre Vendas", "3.03 - Devolucoes de Vendas",
       "3.04 - Frete sobre Vendas", "4.01 - Custo de Mercadorias",
       "4.02 - Frete sobre Compras", "5.01 - Despesas Administrativas",
       "6.01 - Juros Recebidos", "6.02 - Outros Resultados", "Categoria Livre",
       "Gympass", "Nao classificado", "Outros", "Saldo Inicial" >>

CategoryRank(c) == CHOOSE k \in 1..Len(CategoryOrder) : CategoryOrder[k] = c

\* analyze_by_category: one line per category (groupby sorts the
\* categories and leaves out rows without one), then a stable sort by the
\* absolute total, largest first. The mean is rounded down to an integer.
analyze_by_category(t, strict) ==
    LET rows == { i \in 1..Len(t) : t[i].classificacao_sugerida # NULL }
        cats == { t[i].classificacao_sugerida : i \in rows }
        Of(c) == { i \in rows : t[i].classificacao_sugerida = c }
        order == Sorted(cats, [c \in cats |->
                                  (0 - Abs(SumValor(t, Of(c))))
                                      * (Len(CategoryOrder) + 1)
                                      + CategoryRank(c)])
    IN IF strict /\ \E c \in cats : MixedData(t, Of(c))
       THEN Raise("TypeError")
       ELSE Value([g \in 1..Len(order) |->
                     [categoria |-> order[g],
                      total |-> SumValor(t, Of(order[g])),
                      quantidade |-> Cardinality(Of(order[g])),
                      media |-> SumValor(t, Of(order[g]))
                                   \div Cardinality(Of(order[g])),
                      primeira_transacao |-> MinData(t, Of(order[g])),
                      ultima_transacao |-> MaxData(t, Of(order[g]))]])

\* Series.str.contains(kw, case=False, na=False) on a category.
CategoryHas(kw, c) ==
    CASE kw = "Saldo Inicial" -> c = "Saldo Inicial"
      [] kw = "Transferencia Entre Contas" ->
            c \in { "(+) Transferencia Entre Contas",
                    "(-) Transferencia Entre Contas" }
      [] OTHER -> FALSE

\* Series.str.contains('SALDO', case=False, na=False) on a description.
DescriptionHasSaldo(d) ==
    d.kind = "text" /\ In("SALDO", { Upper(w) : w \in d.words })

\* row['descricao'][:50]
First50(d) ==
    [d EXCEPT !.words =
        { IF w = LongText
          THEN "PAGAMENTO DE BOLETO FORNECEDOR DISTRIBUIDORA CENTR" ELSE w :
          w \in d.words }]

\* DataFrame.nlargest(n, 'valor') and nsmallest(n, 'valor') over the rows
\* I: by amount, rows of equal amount in table order, the first n.
Largest(t, I, n) ==
    LET order == Sorted(I, [i \in I |-> (0 - t[i].valor) * (Len(t) + 1) + i])
    IN SubSeq(order, 1, Min(n, Len(order)))

Smallest(t, I, n) ==
    LET order == Sorted(I, [i \in I |-> t[i].valor * (Len(t) + 1) + i])
    IN SubSeq(order, 1, Min(n, Len(order)))

\* The length of the two top lists of the summary.
TopN == 5

\* df.empty
IsEmptyNever(t) == FALSE

IsEmpty(t) == Len(t) = 0

\* generate_summary: ValueError on an empty table; else the period, the
\* totals, the counts and the two top lists. A top row whose description
\* is missing raises TypeError when it is sliced. Means and the margin are
\* rounded down to integers.
generate_summary(t, strict) ==
    LET all == 1..Len(t)
        pos == Positive(t, all)
        neg == Negative(t, all)
        receitas == SumValor(t, pos)
        despesas == Abs(SumValor(t, neg))
        saldo == receitas - despesas
        parsed == { to_datetime(t[i].data) : i \in all } \ {NaT}
        data_min == CHOOSE d \in parsed : \A o \in parsed :
                        PeriodRank(d) * 32 + d.day <= PeriodRank(o) * 32 + o.day
        data_max == CHOOSE d \in parsed : \A o \in parsed :
                        PeriodRank(d) * 32 + d.day >= PeriodRank(o) * 32 + o.day
        top_rec == Largest(t, { i \in pos :
                        /\ ~CategoryHas("Saldo Inicial",
                                        t[i].classificacao_sugerida)
                        /\ ~CategoryHas("Transferencia Entre Contas",
                                        t[i].classificacao_sugerida)
                        /\ ~DescriptionHasSaldo(t[i].descricao) }, TopN)
        top_desp == Smallest(t, { i \in neg :
                        ~CategoryHas("Transferencia Entre Contas",
                                     t[i].classificacao_sugerida) }, TopN)
        Top(rows) == [k \in 1..Len(rows) |->
                        [data |-> t[rows[k]].data,
                         descricao |-> First50(t[rows[k]].descricao),
                         valor |-> t[rows[k]].valor,
                         categoria |-> t[rows[k]].classificacao_sugerida]]
    IN IF IsEmpty(t) THEN Raise("ValueError")
       ELSE IF strict /\ MixedData(t, all) THEN Raise("TypeError")
       ELSE IF \E k \in 1..Len(top_rec) : t[top_rec[k]].descricao.kind # "text"
            THEN Raise("TypeError")
       ELSE IF \E k \in 1..Len(top_desp) : t[top_desp[k]].descricao.kind # "text"
            THEN Raise("TypeError")
       ELSE Value(
         [periodo |->
            [inicio |-> MinData(t, all), fim |-> MaxData(t, all),
             mes_inicio |-> IF parsed = {} THEN "N/A"
                            ELSE PeriodStr(to_period(data_min)),
             mes_fim |-> IF parsed = {} THEN "N/A"
                         ELSE PeriodStr(to_period(data_max))],
          totais |->
            [receita |-> receitas, despesa |-> despesas, saldo |-> saldo,
             margem |-> IF receitas > 0 THEN Pct(saldo, receitas) ELSE 0],
          transacoes |->
            [total |-> Len(t), receitas |-> Cardinality(pos),
             despesas |-> Cardinality(neg),
             ticket_medio_receita |->
                IF pos # {} THEN receitas \div Cardinality(pos) ELSE 0,
             ticket_medio_despesa |->
                IF neg # {} THEN despesas \div Cardinality(neg) ELSE 0],
          top_receitas |-> Top(top_rec),
          top_despesas |-> Top(top_desp)])

\* generate_full_report at time now: ValueError on an empty table; else the
\* table is enriched and every analysis run in turn, an exception of any
\* of them ending the call; the report carries the time of the call.
generate_full_report(t, strict, now) ==
    LET enriched == enrich_with_plan(t)
        sumario == generate_summary(t, strict)
        categorias == analyze_by_category(t, strict)
        comparacoes == get_all_month_comparisons(t)
    IN IF IsEmpty(t) THEN Outcome(Raise("ValueError"), << >>)
       ELSE IF sumario.kind = "raise" THEN Outcome(sumario, << >>)
       ELSE IF categorias.kind = "raise" THEN Outcome(categorias, << >>)
       ELSE Outcome(
              Value([data_geracao |-> now,
                     sumario |-> sumario.value,
                     dre |-> calculate_dre(enriched),
                     dfc |-> calculate_dfc(enriched),
                     analise_categorias |-> categorias.value,
                     tendencia_mensal |-> analyze_monthly_trend(t),
                     comparacoes_mensais |-> comparacoes.value,
                     fonte_dados |-> "Arquivos OFX processados"]),
              comparacoes.logs)

\* What the variable result holds after an operation.
Result(op, args, r) ==
    [op |-> op, args |-> args, kind |-> r.kind, value |-> r.value,
     error |-> r.error]

\* The month arguments compare_months is called with: months with rows and
\* months without.
MonthArgs == { "2024-12", "2025-01", "2025-02", "2025-03" }

\* The analyzer applied to a table: the table is drawn at the start, with
\* the behaviour of min() on a column with missing cells that the installed
\* pandas has.
InitAnalysis ==
    /\ Init!1 /\ Init!2 /\ Init!3 /\ Init!4 /\ Init!5 /\ Init!6 /\ Init!7
    /\ Init!8 /\ Init!9 /\ Init!10 /\ Init!11 /\ Init!12 /\ Init!13 /\ Init!14
    /\ Init!15 /\ Init!16 /\ Init!17 /\ Init!18 /\ Init!19 /\ Init!20
    /\ Init!21 /\ Init!22 /\ Init!23
    /\ report_df \in ReportTables
    /\ result = NoResult
    /\ reports = << >>
    /\ clock = 0
    /\ strict_min \in BOOLEAN
    /\ Init!29 /\ Init!30

\* One call of an operation that logs nothing.
Apply(op, r) ==
    /\ result' = Result(op, << >>, r)
    /\ UNCHANGED << pipeline_vars, rule_vars, session_vars, report_df, reports,
                    clock, strict_min, cache_vars >>

EnrichWithPlan ==
    /\ result = NoResult
    /\ Apply("enrich_with_plan", Value(enrich_with_plan(report_df)))

CalculateDre ==
    /\ result = NoResult
    /\ Apply("calculate_dre",
             Value(calculate_dre(enrich_with_plan(report_df))))

CalculateDfc ==
    /\ result = NoResult
    /\ Apply("calculate_dfc",
             Value(calculate_dfc(enrich_with_plan(report_df))))

AnalyzeByCategory ==
    /\ result = NoResult
    /\ Apply("analyze_by_category",
             analyze_by_category(report_df, strict_min))

AnalyzeMonthlyTrend ==
    /\ result = NoResult
    /\ Apply("analyze_monthly_trend",
             Value(analyze_monthly_trend(report_df)))

GenerateSummary ==
    /\ result = NoResult
    /\ Apply("generate_summary", generate_summary(report_df, strict_min))

\* One call of an operation that hands comparisons to the global logger.
ApplyLogging(op, args, o) ==
    /\ result' = Result(op, args, o.value)
    /\ logger' = LogComparisons(logger, o.logs)
    /\ UNCHANGED << pc, input, max_concurrency, df, indices, start, st, sem, out,
                    resultados, decision_rows, calls, computed, chain_out,
                    current_df, saves, rule_vars, session_vars, report_df,
                    strict_min, cache_vars >>

CompareMonths(month_a, month_b) ==
    /\ result = NoResult
    /\ ApplyLogging("compare_months", << month_a, month_b >>,
                    LET o == compare_months(report_df, month_a, month_b)
                    IN Outcome(Value(o.value), o.logs))
    /\ UNCHANGED << reports, clock >>

GetAllMonthComparisons ==
    /\ result = NoResult
    /\ ApplyLogging("get_all_month_comparisons", << >>,
                    LET o == get_all_month_comparisons(report_df)
                    IN Outcome(Value(o.value), o.logs))
    /\ UNCHANGED << reports, clock >>

\* generate_full_report, which api_relatorio calls on every request: the
\* first call and the calls after it, at the time of each.
GenerateFullReport(now) ==
    /\ result.op \in {"none", "generate_full_report"}
    /\ Len(reports) < MaxReports
    /\ now >= clock
    /\ clock' = now
    /\ LET o == generate_full_report(report_df, strict_min, now)
       IN /\ ApplyLogging("generate_full_report", << >>, o)
          /\ reports' = Append(reports, o.value)

NextAnalysis ==
    \/ EnrichWithPlan
    \/ CalculateDre
    \/ CalculateDfc
    \/ AnalyzeByCategory
    \/ AnalyzeMonthlyTrend
    \/ \E month_a \in MonthArgs, month_b \in MonthArgs :
          CompareMonths(month_a, month_b)
    \/ GetAllMonthComparisons
    \/ GenerateSummary
    \/ \E now \in 0..MaxClock : GenerateFullReport(now)

SpecAnalysis == InitAnalysis /\ [][NextAnalysis]_vars

(***************************************************************************)
(* The statements alone: calculate_dre and calculate_dfc applied to tables *)
(* whose categories reach every line of the account plan.                  *)
(***************************************************************************)
\* The rows of these tables: accounts whose labels hold the keywords of more
\* than one statement line, an account of no line, an account without a
\* second level, and a category without an account.
StatementRows ==
    { ReportRow(DateText(15, 12, 2024), TextDesc({"LOJA"}), 500,
                "3.01 - Receita de Vendas"),
      ReportRow(DateText(16, 12, 2024), TextDesc({"LOJA"}), -15,
                "3.03 - Devolucoes de Vendas"),
      ReportRow(DateText(17, 12, 2024), TextDesc({"LOJA"}), -8,
                "3.04 - Frete sobre Vendas"),
      ReportRow(DateText(18, 12, 2024), TextDesc({"LOJA"}), 3,
                "3.04 - Frete sobre Vendas"),
      ReportRow(DateText(19, 12, 2024), TextDesc({"LOJA"}), -40,
                "4.02 - Frete sobre Compras"),
      ReportRow(DateText(20, 12, 2024), TextDesc({"LOJA"}), -10,
                "5.01 - Despesas Administrativas"),
      ReportRow(DateText(21, 12, 2024), TextDesc({"LOJA"}), 25,
                "6.01 - Juros Recebidos"),
      ReportRow(DateText(22, 12, 2024), TextDesc({"LOJA"}), -12,
                "6.02 - Outros Resultados"),
      ReportRow(DateText(23, 12, 2024), TextDesc({"Gympass"}), -20, "Gympass") }

StatementTables == UNION { [1..n -> StatementRows] : n \in 0..MaxLines }

InitStatements ==
    /\ Init!1 /\ Init!2 /\ Init!3 /\ Init!4 /\ Init!5 /\ Init!6 /\ Init!7
    /\ Init!8 /\ Init!9 /\ Init!10 /\ Init!11 /\ Init!12 /\ Init!13 /\ Init!14
    /\ Init!15 /\ Init!16 /\ Init!17 /\ Init!18 /\ Init!19 /\ Init!20
    /\ Init!21 /\ Init!22 /\ Init!23
    /\ report_df \in StatementTables
    /\ Init!25 /\ Init!26 /\ Init!27 /\ Init!28 /\ Init!29 /\ Init!30

NextStatements ==
    \/ EnrichWithPlan
    \/ CalculateDre
    \/ CalculateDfc

SpecStatements == InitStatements /\ [][NextStatements]_vars

(***************************************************************************)
(* The summary alone: generate_summary applied to tables with more rows    *)
(* than a top list holds.                                                  *)
(***************************************************************************)
\* The rows of these tables: revenues and expenses of different amounts,
\* transfers between own accounts in both directions, and an opening
\* balance of an overdrawn account.
SummaryRows ==
    { ReportRow(DateText(15, 12, 2024), TextDesc({"LOJA"}), 500,
                "3.01 - Receita de Vendas"),
      ReportRow(DateText(20, 1, 2025), TextDesc({"pix", "LOJA"}), 30,
                "3.01 - Receita de Vendas"),
      ReportRow(DateText(10, 1, 2025), TextDesc({"LOJA"}), -40,
                "4.01 - Custo de Mercadorias"),
      ReportRow(DateText(2, 1, 2025), TextDesc({"LOJA"}), 70,
                "(+) Transferencia Entre Contas"),
      ReportRow(DateText(3, 1, 2025), TextDesc({"LOJA"}), -25,
                "(-) Transferencia Entre Contas"),
      ReportRow(DateText(1, 12, 2024), TextDesc({"LOJA"}), -60, "Saldo Inicial") }

SummaryTables == UNION { [1..n -> SummaryRows] : n \in 0..MaxSummaryRows }

InitSummary ==
    /\ Init!1 /\ Init!2 /\ Init!3 /\ Init!4 /\ Init!5 /\ Init!6 /\ Init!7
    /\ Init!8 /\ Init!9 /\ Init!10 /\ Init!11 /\ Init!12 /\ Init!13 /\ Init!14
    /\ Init!15 /\ Init!16 /\ Init!17 /\ Init!18 /\ Init!19 /\ Init!20
    /\ Init!21 /\ Init!22 /\ Init!23
    /\ report_df \in SummaryTables
    /\ Init!25 /\ Init!26 /\ Init!27 /\ Init!28 /\ Init!29 /\ Init!30

NextSummary == GenerateSummary

SpecSummary == InitSummary /\ [][NextSummary]_vars

(***************************************************************************)
(* The report requests of the application: /process, /api/save,            *)
(* /api/relatorio and /relatorio/download.                                 *)
(***************************************************************************)
\* The rows of the classified tables process_files publishes here.
UploadRows ==
    { ReportRow(DateText(15, 12, 2024), TextDesc({"LOJA"}), 500,
                "3.01 - Receita de Vendas"),
      ReportRow(DateText(10, 1, 2025), TextDesc({"LOJA"}), -40,
                "4.01 - Custo de Mercadorias") }

UploadTables == UNION { [1..n -> UploadRows] : n \in 1..MaxUploadRows }

\* process_files, by what it leaves in current_df: the classified table
\* with its index column. The classification itself is the dispatcher's;
\* here its outcome is the table drawn.
ProcessFiles(t) ==
    /\ runs < MaxRuns
    /\ runs' = runs + 1
    /\ current_df' =
         [loaded |-> TRUE,
          rows |-> [i \in 1..Len(t) |->
                       [data |-> t[i].data, descricao |-> t[i].descricao,
                        valor |-> t[i].valor,
                        classificacao_sugerida |-> t[i].classificacao_sugerida,
                        index |-> i - 1]]]
    /\ UNCHANGED << pc, input, max_concurrency, df, indices, start, st, sem, out,
                    resultados, logger, decision_rows, calls, computed,
                    chain_out, saves, rule_vars, run_mark, session_file,
                    analysis_vars, cache_vars >>

\* The end of api_relatorio with the outcome o of generate_full_report: the
\* comparisons are logged, and a report that was generated is cached.
KeepReport(o) ==
    /\ logger' = LogComparisons(logger, o.logs)
    /\ reports' = Append(reports, o.value)
    /\ cached_report' = IF o.value.kind = "value"
                        THEN [cached |-> TRUE, report |-> o.value.value]
                        ELSE cached_report

\* api_relatorio: 404 without a table; else the report of current_df is
\* generated and kept in cached_report; when the generation raises, the
\* answer is 500 and the cache keeps what it had.
ApiRelatorio(now) ==
    /\ current_df.loaded
    /\ Len(reports) < MaxReports
    /\ now >= clock
    /\ clock' = now
    /\ KeepReport(generate_full_report(current_df.rows, strict_min, now))
    /\ UNCHANGED << pc, input, max_concurrency, df, indices, start, st, sem, out,
                    resultados, decision_rows, calls, computed, chain_out,
                    current_df, saves, rule_vars, session_vars, report_df,
                    result, strict_min, pdf >>

\* The end of download_relatorio with the financial report it uses: the
\* PDF is built from it; when it was generated in this request, its
\* comparisons are logged, and when the generation raised, the answer is
\* 500 and no PDF is built.
BuildPdf(o, generated) ==
    /\ logger' = IF generated THEN LogComparisons(logger, o.logs) ELSE logger
    /\ reports' = IF generated THEN Append(reports, o.value) ELSE reports
    /\ pdf' = IF o.value.kind = "value"
              THEN [built |-> TRUE, report |-> o.value.value,
                    table |-> current_df.rows]
              ELSE pdf

\* download_relatorio: 404 without a table; the PDF is built from
\* cached_report when there is one, else from a report generated from
\* current_df.
DownloadRelatorio(now) ==
    /\ current_df.loaded
    /\ cached_report.cached \/ Len(reports) < MaxReports
    /\ now >= clock
    /\ clock' = now
    /\ IF cached_report.cached
       THEN BuildPdf(Outcome(Value(cached_report.report), << >>), FALSE)
       ELSE BuildPdf(generate_full_report(current_df.rows, strict_min, now),
                     TRUE)
    /\ UNCHANGED << pc, input, max_concurrency, df, indices, start, st, sem, out,
                    resultados, decision_rows, calls, computed, chain_out,
                    current_df, saves, rule_vars, session_vars, report_df,
                    result, strict_min, cached_report >>

NextReport ==
    \/ \E t \in UploadTables : ProcessFiles(t)
    \/ \E edits \in Edits : ApiSave(edits)
    \/ \E now \in 0..MaxClock : ApiRelatorio(now)
    \/ \E now \in 0..MaxClock : DownloadRelatorio(now)

SpecReport == Init /\ [][NextReport]_vars

(***************************************************************************)
(* The dispatcher under the scheduling of the event loop: a task that can  *)
(* enter the semaphore does, a call that is in flight returns or raises,   *)
(* and a gather whose tasks are all done returns.                          *)
(***************************************************************************)
\* The rows of the tables of this specification: a row a rule resolves and
\* a row that needs the classifier.
LiveRows ==
    { Row(TextDesc({"BODY STATION ACADEMIA"}), "credit", 500, NULL, NULL),
      Row(TextDesc({"LOJA"}), "credit", 30, NULL, NULL) }

LiveTables == UNION { [1..n -> LiveRows] : n \in 0..MaxTx }

NextLive ==
    \/ \E t \in LiveTables, limit \in 1..MaxLimit : Start(t, limit)
    \/ \E k \in 1..MaxTx : TaskRun(k)
    \/ \E k \in 1..MaxTx, oc \in ChainOutcomes : AIResponse(k, oc)
    \/ ChunkDone
    \/ Finish

Fairness ==
    /\ WF_vars(\E k \in 1..MaxTx : TaskRun(k))
    /\ \A k \in 1..MaxTx : WF_vars(\E oc \in ChainOutcomes : AIResponse(k, oc))
    /\ WF_vars(ChunkDone)
    /\ WF_vars(Finish)

SpecLive == Init /\ [][NextLive]_vars /\ Fairness

(***************************************************************************)
(* Properties of the dispatcher.                                           *)
(***************************************************************************)
Rows == 1..Len(df)
CategoryOf(t, i) == t[i].classificacao_sugerida
DecisionOf(t, i) == Decision(t[i].classificacao_sugerida, t[i].explicacao)
WasUnclassified(i) == input[i].classificacao_sugerida = NULL
Responded(i) == chain_out[i].kind = "response"
Raised(i) == chain_out[i].kind = "raise"
OutOfSet(i) ==
    Responded(i) /\ chain_out[i].response.classificacao_sugerida \notin classes_permitidas
InFlight == { k \in 1..Len(indices) : st[k] = "inflight" }

\* C1: when classificar_transacoes_df has returned, every row of the returned
\* table has a category, and a row that came in without one holds a rule
\* category, the category its classifier call returned, or the sentinel.
C1_EveryRowCategorised ==
    pc = "done" =>
        \A i \in Rows :
            /\ CategoryOf(df, i) # NULL
            /\ WasUnclassified(i) =>
                 \/ CategoryOf(df, i) \in RuleCategories
                 \/ /\ Responded(i)
                    /\ CategoryOf(df, i) = chain_out[i].response.classificacao_sugerida
                 \/ CategoryOf(df, i) = Sentinel

\* A finished run with a rule row, a row the classifier categorised and a
\* row whose call raised.
C1_Witness ==
    /\ pc = "done"
    /\ \E i, j, h \in Rows :
         /\ WasUnclassified(i) /\ CategoryOf(df, i) \in RuleCategories
         /\ Responded(j) /\ CategoryOf(df, j) = "Outros"
         /\ Raised(h) /\ CategoryOf(df, h) = Sentinel

\* C2: at every instant, the calls of chain.ainvoke that have started and
\* not yet ended are at most max_concurrency.
C2_ConcurrencyBound == Cardinality(InFlight) <= max_concurrency

\* In the second chunk of a run, every permit is taken and a task of the
\* chunk is still waiting for one.
C2_Witness ==
    /\ pc = "running"
    /\ start > 0
    /\ Cardinality(InFlight) = max_concurrency
    /\ \E k \in 1..Len(indices) : st[k] = "done" /\ calls[indices[k]] = 1

\* A chunk that holds more tasks than permits: one call is outstanding and
\* another task of the same chunk waits.
C2_WitnessBlocked ==
    /\ pc = "running"
    /\ Cardinality(InFlight) = max_concurrency
    /\ \E k \in 1..Len(indices) :
         InChunk(k) /\ st[k] = "created" /\ NeedsAI(df[indices[k]])

\* C3: whatever the order in which the calls end, the returned table has the
\* rows of the input in the input's order, each row that was classified holds
\* the decision computed for that row, and the other rows are untouched.
C3_ResultsMatchRows ==
    pc = "done" =>
        /\ Len(df) = Len(input)
        /\ \A i \in Rows :
             /\ df[i].descricao = input[i].descricao
             /\ df[i].origem = input[i].origem
             /\ df[i].valor = input[i].valor
             /\ IF WasUnclassified(i)
                THEN DecisionOf(df, i) = computed[i]
                ELSE DecisionOf(df, i) = DecisionOf(input, i)

\* A finished run in which a later row's call ended before an earlier row's
\* call, with different decisions.
C3_Witness ==
    /\ pc = "done"
    /\ \E a, b \in 1..Len(decision_rows) :
         /\ a < b
         /\ decision_rows[a] > decision_rows[b]
         /\ calls[decision_rows[a]] = 1
         /\ calls[decision_rows[b]] = 1
         /\ computed[decision_rows[a]] # computed[decision_rows[b]]

\* C4: a call that raises, or whose response is outside the closed set, ends
\* only its own row, which gets the sentinel and an explanation that carries
\* the failure reason; the run still finishes and a row whose call returned a
\* valid response for a text description holds that response.
C4_FailureIsLocal ==
    pc = "done" =>
        \A i \in Rows :
            /\ Raised(i) =>
                 DecisionOf(df, i) =
                     Decision(Sentinel, "Erro na classificação: " \o chain_out[i].reason)
            /\ OutOfSet(i) =>
                 DecisionOf(df, i) =
                     Decision(Sentinel, "Erro na classificação: ValidationError")
            /\ (Responded(i) /\ ~OutOfSet(i) /\ input[i].descricao.kind = "text") =>
                 DecisionOf(df, i) = chain_out[i].response

\* A finished run in which one call raised, one response was out of the set,
\* and one row got the classifier's answer.
C4_Witness ==
    /\ pc = "done"
    /\ \E i, j, h \in Rows :
         /\ Raised(i)
         /\ OutOfSet(j)
         /\ Responded(h) /\ ~OutOfSet(h) /\ CategoryOf(df, h) = "Outros"

\* C5: the category of an out-of-set response is stored nowhere: not in a
\* decision, a result slot, the returned table or the published table; the
\* row gets the sentinel.
C5_OutOfSetNeverStored ==
    LET bad == { r.classificacao_sugerida : r \in RawResponses } \ classes_permitidas
    IN /\ \A i \in 1..Len(computed) :
            /\ computed[i].classificacao_sugerida \notin bad
            /\ OutOfSet(i) => computed[i].classificacao_sugerida = Sentinel
       /\ \A p \in 1..Len(out) : out[p].classificacao_sugerida \notin bad
       /\ \A p \in 1..Len(resultados) : resultados[p].classificacao_sugerida \notin bad
       /\ \A i \in Rows : CategoryOf(df, i) \notin bad
       /\ \A i \in 1..Len(current_df.rows) :
            /\ CategoryOf(current_df.rows, i) \notin bad
            /\ OutOfSet(i) => CategoryOf(current_df.rows, i) = Sentinel

\* A published table with a row whose call answered an out-of-set category.
C5_Witness ==
    /\ pc = "done"
    /\ current_df.loaded
    /\ \E i \in Rows : OutOfSet(i)

\* C6: once the classification has completed, also after saved edits, every
\* category of the published table is in the closed set or is the sentinel.
C6_ClosedSetAfterEdits ==
    (pc = "done" /\ current_df.loaded) =>
        \A i \in 1..Len(current_df.rows) :
            CategoryOf(current_df.rows, i) \in classes_permitidas \cup {Sentinel}

\* C7: the classifier is called at most once per row, and in a finished run
\* not at all for a row that had a category or that a rule resolves, and
\* exactly once for every other row, whether the call failed or not.
C7_AtMostOneCall ==
    /\ \A i \in 1..Len(calls) : calls[i] <= 1
    /\ pc = "done" =>
         \A i \in Rows :
             calls[i] =
                 IF \/ ~WasUnclassified(i)
                    \/ regras_pre_classificacao(input[i], FALSE).result # NoDecision
                 THEN 0 ELSE 1

\* A finished run with a failed call (made once), a rule row and a row that
\* came in with a category (neither called).
C7_Witness ==
    /\ pc = "done"
    /\ \E i, j, h \in Rows :
         /\ Raised(i) /\ calls[i] = 1
         /\ WasUnclassified(j) /\ CategoryOf(df, j) \in RuleCategories /\ calls[j] = 0
         /\ ~WasUnclassified(h) /\ calls[h] = 0

\* C10: after a run, the decision log holds exactly one classification
\* record for each transaction the run classified.
C10_OneRecordPerTransaction ==
    pc = "done" =>
        \A i \in Rows :
            WasUnclassified(i) =>
                Cardinality({ p \in 1..Len(decision_rows) : decision_rows[p] = i }) = 1

(***************************************************************************)
(* Properties of the rule engine.                                          *)
(***************************************************************************)
\* The predicates in the order of the rule table.
RuleMatches(n, desc) ==
    CASE n = 1 -> In("BODY STATION ACADEMIA", desc) \/ In("J E MADEIRA A", desc)
      [] n = 2 -> In("RENDE FACIL", desc) \/ In("RENDE FÁCIL", desc)
      [] n = 3 -> In("PIX", desc) \/ In("TED", desc)
      [] n = 4 -> In("REDE", desc) \/ In("CARTAO", desc) \/ In("CARTÃO", desc)
      [] n = 5 -> In("GYMPASS", desc)
      [] n = 6 -> In("SEGURO", desc)
      [] n = 7 -> In("CONSORCIO", desc) \/ In("CONSÓRCIO", desc)
      [] n = 8 -> In("OUROCAP", desc) \/ In("INVEST", desc)

\* The category of each rule for an inbound and for an outbound transaction.
InboundCategory(n) ==
    CASE n = 1 -> "(+) Transferencia Entre Contas"
      [] n = 2 -> "Resgate Aplicação Financeira"
      [] n = 3 -> "Entrada de Transferência"
      [] n = 4 -> "Receita com Venda de Serviços"
      [] n = 5 -> "Gympass"
      [] n = 6 -> "Seguros"
      [] n = 7 -> "Consórcios"
      [] n = 8 -> "Investimento"

OutboundCategory(n) ==
    CASE n = 1 -> "(-) Transferencia Entre Contas"
      [] n = 2 -> "0.006 - Aplicação Financeira"
      [] n = 3 -> "Saída de Transferência"
      [] OTHER -> InboundCategory(n)

Matching(desc) == { n \in 1..8 : RuleMatches(n, desc) }
First(S) == CHOOSE n \in S : \A m \in S : n <= m
RuleDescription == UpperDesc(rule_row.descricao)

\* C8: the rule engine returns the result of the first predicate, in the
\* order of the table, that the description matches, and None exactly when
\* the description matches no predicate.
C8_FirstMatchWins ==
    rule_applied =>
        LET M == Matching(RuleDescription) IN
        IF M = {}
        THEN rule_out.result = NoDecision
        ELSE rule_out.result.classificacao_sugerida \in
                 {InboundCategory(First(M)), OutboundCategory(First(M))}

\* The engine applied to a description that matches the PIX/TED predicate
\* and the REDE/CARTAO predicate.
C8_Witness ==
    /\ rule_applied
    /\ {3, 4} \subseteq Matching(RuleDescription)
    /\ rule_out.result.classificacao_sugerida = "Saída de Transferência"

\* C9: when the rule that fires is direction-sensitive, a credit transaction
\* gets its inbound category and a debit transaction its outbound category;
\* when it is direction-agnostic, the result is the same for every direction.
C9_Direction ==
    rule_applied =>
        LET M == Matching(RuleDescription) IN
        M # {} =>
            /\ rule_row.tipo_transacao = "credit" =>
                 rule_out.result.classificacao_sugerida = InboundCategory(First(M))
            /\ rule_row.tipo_transacao = "debit" =>
                 rule_out.result.classificacao_sugerida = OutboundCategory(First(M))
            /\ First(M) > 3 =>
                 \A tipo \in TiposTransacao :
                     regras_pre_classificacao(
                         transform_data(RawTransaction(rule_row.descricao, tipo)),
                         TRUE).result = rule_out.result

\* The engine applied to a debit transaction whose description is a
\* lower-case "pix": it gets the outbound transfer category.
C9_Witness ==
    /\ rule_applied
    /\ rule_row.tipo_transacao = "debit"
    /\ rule_row.descricao = TextDesc({"pix"})
    /\ rule_out.result.classificacao_sugerida = "Saída de Transferência"

(***************************************************************************)
(* Properties of the decision log across runs.                             *)
(***************************************************************************)
\* The decisions recorded since the current run began.
DecisionsOfRun == SubSeq(logger.decisions, run_mark + 1, Len(logger.decisions))

Methods == {"rule", "ai", "error"}

CountOf(entries, m) ==
    Cardinality({ p \in 1..Len(entries) :
                    "method" \in DOMAIN entries[p] /\ entries[p].method = m })

Counter(types, m) == IF m \in DOMAIN types THEN types[m] ELSE 0

\* C11: the log saved at the end of a run holds the decisions of that run
\* and no other, and its total and per-method counters count that run's
\* decisions only.
C11_LogScopedToRun ==
    (pc = "done" /\ session_file.written) =>
        /\ session_file.decisions = DecisionsOfRun
        /\ session_file.metadata.total_decisions = Len(DecisionsOfRun)
        /\ \A m \in Methods :
              Counter(session_file.metadata.decision_types, m) =
                  CountOf(DecisionsOfRun, m)

(***************************************************************************)
(* Properties of the decision log within a run.                            *)
(***************************************************************************)
\* AIDecisionLogger.get_stats
get_stats(L) ==
    [total_decisions |-> Len(L.decisions), decision_types |-> L.decision_types]

IsPrefix(s, t) == Len(s) <= Len(t) /\ SubSeq(t, 1, Len(s)) = s

CountersAgree(L) ==
    /\ L.total_decisions = Len(L.decisions)
    /\ get_stats(L).total_decisions = L.total_decisions
    /\ \A m \in Methods : Counter(L.decision_types, m) = CountOf(L.decisions, m)
    /\ DOMAIN L.decision_types \subseteq Methods

\* C21: the decision log is append-only and its counters agree with its
\* list: every step leaves the records already in the list where and as they
\* were, total_decisions is the length of the list, and the count kept for
\* each method is the number of classification records with that method,
\* also while other tasks of the chunk are in flight.
C21_LogAppendOnly ==
    /\ [](CountersAgree(logger))
    /\ [][IsPrefix(logger.decisions, logger'.decisions)]_vars

\* A record is appended while another task of the chunk is in flight, and
\* the log holds records of two methods.
C21_Witness ==
    /\ pc = "running"
    /\ InFlight # {}
    /\ Len(logger.decisions) >= 2
    /\ \E m1, m2 \in Methods :
          /\ m1 # m2
          /\ CountOf(logger.decisions, m1) > 0
          /\ CountOf(logger.decisions, m2) > 0

(***************************************************************************)
(* Properties of the table during a run.                                   *)
(***************************************************************************)
\* The transactions of the batch that carry a category in table t.
BatchClassified(t) ==
    { k \in 1..Len(indices) :
        indices[k] <= Len(t) /\ t[indices[k]].classificacao_sugerida # NULL }

PartlyClassified(t) ==
    BatchClassified(t) # {} /\ BatchClassified(t) # 1..Len(indices)

\* C22: while classificar_transacoes_df is running, neither the table the
\* caller passed nor the published current_df holds some of the batch's
\* transactions classified and others not; the results are first visible
\* when every item of every chunk has completed.
C22_NoPartialTable ==
    pc = "running" =>
        /\ ~PartlyClassified(input)
        /\ ~PartlyClassified(df)
        /\ ~PartlyClassified(current_df.rows)

\* The first chunk has completed with a category for one of its rows while
\* a task of the next chunk is still to finish.
C22_Witness ==
    /\ pc = "running"
    /\ start > 0
    /\ \E p \in 1..Len(resultados) : resultados[p].classificacao_sugerida # NULL
    /\ \E k \in 1..Len(indices) : InChunk(k) /\ st[k] # "done"

(***************************************************************************)
(* Properties of the analyzer.                                             *)
(***************************************************************************)
\* The rows of the table whose date is a calendar date of month key m.
RowsOfMonth(m) ==
    { i \in 1..Len(report_df) :
        /\ to_datetime(report_df[i].data) # NaT
        /\ PeriodStr(to_period(to_datetime(report_df[i].data))) = m }

\* The month keys of the rows whose date is a calendar date.
MonthsInData ==
    { PeriodStr(to_period(to_datetime(report_df[i].data))) :
        i \in { j \in 1..Len(report_df) : to_datetime(report_df[j].data) # NaT } }

TrendKeys(trend) == [k \in 1..Len(trend) |-> trend[k].mes]

\* C12: the month keys analyze_monthly_trend returns are the distinct
\* calendar months of the parseable dates of the table, each once, in
\* ascending order, and no month without a row is among them.
C12_TrendMonths ==
    result.op = "analyze_monthly_trend" =>
        LET keys == TrendKeys(result.value)
        IN /\ \A m \in MonthsInData :
                Cardinality({ k \in 1..Len(keys) : keys[k] = m }) = 1
           /\ \A k \in 1..Len(keys) : keys[k] \in MonthsInData
           /\ \A k \in 1..Len(keys) : RowsOfMonth(keys[k]) # {}
           /\ \A k \in 1..(Len(keys) - 1) : StrRank(keys[k]) < StrRank(keys[k + 1])

\* A trend over months with a gap between them, from a table that also has
\* a row whose date is no calendar date.
C12_Witness ==
    /\ result.op = "analyze_monthly_trend"
    /\ TrendKeys(result.value) = << "2025-01", "2025-03" >>
    /\ \E i \in 1..Len(report_df) : to_datetime(report_df[i].data) = NaT

\* The sum of f over the finite set S.
RECURSIVE SumOver(_, _)
SumOver(f, S) ==
    IF S = {} THEN 0
    ELSE LET x == CHOOSE y \in S : TRUE IN f[x] + SumOver(f, S \ {x})

\* The positive and the negative amounts of the table, by row.
Gains == [i \in 1..Len(report_df) |->
             IF report_df[i].valor > 0 THEN report_df[i].valor ELSE 0]
Losses == [i \in 1..Len(report_df) |->
              IF report_df[i].valor < 0 THEN 0 - report_df[i].valor ELSE 0]

\* C23: for each month of the monthly trend, the revenue is the sum of the
\* positive amounts of the rows of that month, the expense the absolute
\* value of the sum of its negative amounts, and the balance the revenue
\* minus the expense; rows of other months and rows whose date is no
\* calendar date are counted in no month.
C23_MonthlyFigures ==
    result.op = "analyze_monthly_trend" =>
        /\ \A k \in 1..Len(result.value) :
              LET month == result.value[k]
                  rows == RowsOfMonth(month.mes)
              IN /\ month.receita = SumOver(Gains, rows)
                 /\ month.despesa = SumOver(Losses, rows)
                 /\ month.saldo = month.receita - month.despesa
        /\ SumSeq([k \in 1..Len(result.value) |-> result.value[k].receita]) =
              SumOver(Gains, UNION { RowsOfMonth(m) : m \in MonthsInData })
        /\ SumSeq([k \in 1..Len(result.value) |-> result.value[k].despesa]) =
              SumOver(Losses, UNION { RowsOfMonth(m) : m \in MonthsInData })

\* A trend with a month that has both revenue and expense, from a table
\* with a row outside that month that has an amount.
C23_Witness ==
    /\ result.op = "analyze_monthly_trend"
    /\ \E k \in 1..Len(result.value) :
          /\ result.value[k].receita > 0
          /\ result.value[k].despesa > 0
          /\ \E i \in 1..Len(report_df) :
                i \notin RowsOfMonth(result.value[k].mes) /\ report_df[i].valor # 0

\* Whether the last operation was a compare_months that returned a
\* comparison.
Compared == result.op = "compare_months" /\ result.value # NoComparison

\* C24 as stated: in every comparison compare_months returns, each
\* percentage variation (revenue, expense, balance) is 0 whenever the
\* figure of month A it is based on is 0 or negative.
C24_ZeroWhenBaseNotPositive ==
    Compared =>
        LET a == result.value.period_a
            v == result.value.variations
        IN /\ a.receita <= 0 => v.receita_pct = 0
           /\ a.despesa <= 0 => v.despesa_pct = 0
           /\ a.saldo <= 0 => v.saldo_pct = 0

\* C24 as the code has it: the revenue and the expense of month A are never
\* negative and their variations are 0 when the base is 0; the balance
\* variation is 0 when the balance of month A is 0, and for a negative
\* balance it is the change taken over the absolute value of that balance.
C24_ZeroWhenBaseZero ==
    Compared =>
        LET a == result.value.period_a
            b == result.value.period_b
            v == result.value.variations
        IN /\ a.receita >= 0 /\ a.despesa >= 0
           /\ a.receita = 0 => v.receita_pct = 0
           /\ a.despesa = 0 => v.despesa_pct = 0
           /\ a.saldo = 0 => v.saldo_pct = 0
           /\ a.saldo < 0 => v.saldo_pct = Pct(b.saldo - a.saldo, 0 - a.saldo)

\* A comparison whose month A has no revenue and a negative balance, with
\* revenue in month B: the revenue variation is 0, the balance variation is
\* not.
C24_Witness ==
    /\ Compared
    /\ result.value.period_a.receita = 0
    /\ result.value.period_b.receita > 0
    /\ result.value.variations.receita_pct = 0
    /\ result.value.period_a.saldo < 0
    /\ result.value.variations.saldo_pct # 0

\* C13: compare_months returns a comparison exactly when both months have
\* at least one transaction in the table; otherwise it returns None, never
\* a comparison with zero figures for the empty month, and it then appends
\* nothing to the decision log.
C13_ComparisonNeedsBothMonths ==
    result.op = "compare_months" =>
        LET month_a == result.args[1]
            month_b == result.args[2]
            both == RowsOfMonth(month_a) # {} /\ RowsOfMonth(month_b) # {}
        IN /\ both <=> result.value # NoComparison
           /\ result.value # NoComparison =>
                 /\ result.value.period_a.num_transacoes =
                        Cardinality(RowsOfMonth(month_a))
                 /\ result.value.period_b.num_transacoes =
                        Cardinality(RowsOfMonth(month_b))
           /\ result.value = NoComparison => logger.decisions = << >>

\* compare_months was asked for a month with rows and a month without, and
\* returned None.
C13_Witness ==
    /\ result.op = "compare_months"
    /\ RowsOfMonth(result.args[1]) # {}
    /\ RowsOfMonth(result.args[2]) = {}
    /\ result.value = NoComparison

\* C14: get_all_month_comparisons returns one comparison for each adjacent
\* pair of the sorted distinct calendar months of the table, in ascending
\* order, and no other: both period keys of every comparison are months of
\* the monthly trend, also when rows have missing or unparseable dates.
C14_ComparisonsOfAdjacentMonths ==
    result.op = "get_all_month_comparisons" =>
        LET trend == TrendKeys(analyze_monthly_trend(report_df))
            pairs == [k \in 1..(IF Len(trend) = 0 THEN 0 ELSE Len(trend) - 1) |->
                         << trend[k], trend[k + 1] >>]
        IN [k \in 1..Len(result.value) |->
               << result.value[k].period_a.mes, result.value[k].period_b.mes >>]
             = pairs

\* C15: the totals of calculate_dre follow from its lines: net revenue is
\* gross revenue less deductions, gross profit is net revenue less costs,
\* the operating result is gross profit less operating expenses, and the
\* net result is the operating result plus other revenue less other
\* expenses.
C15_DreAlgebra ==
    result.op = "calculate_dre" =>
        LET dre == result.value
        IN /\ dre.receita_liquida = dre.receita_bruta - dre.deducoes
           /\ dre.lucro_bruto = dre.receita_liquida - dre.custos
           /\ dre.resultado_operacional =
                  dre.lucro_bruto - dre.despesas_operacionais
           /\ dre.resultado_liquido =
                  dre.resultado_operacional + dre.outras_receitas
                      - dre.outras_despesas

\* A statement with deductions, costs and operating expenses.
C15_Witness ==
    /\ result.op = "calculate_dre"
    /\ result.value.deducoes > 0
    /\ result.value.custos > 0
    /\ result.value.despesas_operacionais > 0

\* C16: generate_summary and generate_full_report raise the empty-table
\* error and return nothing when the table is empty, and do not raise that
\* error when it has rows.
C16_EmptyTableRaises ==
    result.op \in {"generate_summary", "generate_full_report"} =>
        /\ Len(report_df) = 0 =>
              result.kind = "raise" /\ result.error = "ValueError"
        /\ Len(report_df) > 0 =>
              ~(result.kind = "raise" /\ result.error = "ValueError")

\* generate_full_report was called with an empty table and raised.
C16_Witness ==
    /\ result.op = "generate_full_report"
    /\ Len(report_df) = 0
    /\ result.kind = "raise"

\* C17: two calls of generate_full_report on the same table return the
\* same report, field for field.
C17_SameReportTwice ==
    Len(reports) >= 2 => reports[1] = reports[2]

\* C19: no operation of the analyzer changes the table it is given, the
\* chart of accounts, or any other state, the decision log included.
C19_AnalyzerIsPure ==
    [][result'.op # "none" =>
          UNCHANGED << report_df, logger, pipeline_vars, rule_vars,
                       session_vars >>]_vars

(***************************************************************************)
(* Properties of the decision records.                                     *)
(***************************************************************************)
\* C18: a call of the rule engine changes no state: it appends nothing to
\* the decision log, whether a rule matches or not.
C18_RuleEngineLogsNothing ==
    [][rule_applied' => UNCHANGED << logger, pipeline_vars, session_vars,
                                    analysis_vars, cache_vars >>]_vars

\* C20: the transaction identifier of every classification record is the
\* identifier process_files gives the transaction the record was written
\* for, so records of different transactions carry different identifiers.
C20_RecordCarriesTransactionId ==
    /\ \A p \in 1..Len(logger.decisions) :
          logger.decisions[p].transaction_id = decision_rows[p] - 1
    /\ \A p, q \in 1..Len(logger.decisions) :
          decision_rows[p] # decision_rows[q] =>
              logger.decisions[p].transaction_id #
                  logger.decisions[q].transaction_id

(***************************************************************************)
(* Properties of the statements.                                           *)
(***************************************************************************)
\* The keyword tests of calculate_dre on the labels of a detail line, in the
\* order of the claim.
IsRevenue(d) == Has("Receita Bruta", d.nivel1)
IsDeduction(d) == Has("Receita Líquida", d.nivel1)
IsCost(d) ==
    Has("Lucro Bruto", d.nivel1) \/ Has("CMV", d.nivel2) \/ Has("Custo", d.nivel2)
IsExpense(d) == Has("Despesa", d.nivel1) \/ Has("Despesa", d.nivel2)

\* The sum of the absolute values of the detail lines at the positions P.
AbsTotal(detail, P) ==
    SumOver([g \in 1..Len(detail) |-> Abs(detail[g].valor)], P)

\* The (level1, level2) pairs of the rows of the table that have both.
PairsInData ==
    LET e == enrich_with_plan(report_df)
    IN { << Strip(e[i].dre_n1), Strip(e[i].dre_n2) >> :
           i \in { j \in 1..Len(e) : e[j].dre_n1 # NULL /\ e[j].dre_n2 # NULL } }

\* C25: calculate_dre adds each (level1, level2) group to at most one line,
\* the first in the order revenue, deductions, costs, operating expenses
\* whose keywords its labels hold: deductions, costs and operating expenses
\* are the sums of the absolute values of the groups routed to each, and a
\* group whose labels hold no keyword is in the detail list and in no sum.
C25_FirstKeywordWins ==
    result.op = "calculate_dre" =>
        LET dre == result.value
            detail == dre.detalhamento
            G == 1..Len(detail)
            deductions == { g \in G : ~IsRevenue(detail[g]) /\ IsDeduction(detail[g]) }
            costs == { g \in G : /\ ~IsRevenue(detail[g])
                                 /\ ~IsDeduction(detail[g])
                                 /\ IsCost(detail[g]) }
            expenses == { g \in G : /\ ~IsRevenue(detail[g])
                                    /\ ~IsDeduction(detail[g])
                                    /\ ~IsCost(detail[g])
                                    /\ IsExpense(detail[g]) }
        IN /\ dre.deducoes = AbsTotal(detail, deductions)
           /\ dre.custos = AbsTotal(detail, costs)
           /\ dre.despesas_operacionais = AbsTotal(detail, expenses)
           /\ { << detail[g].nivel1, detail[g].nivel2 >> : g \in G } = PairsInData
           /\ \A g \in G :
                 DreLine(detail[g].nivel1, detail[g].nivel2) =
                    IF IsRevenue(detail[g]) THEN "receita_bruta"
                    ELSE IF g \in deductions THEN "deducoes"
                    ELSE IF g \in costs THEN "custos"
                    ELSE IF g \in expenses THEN "despesas_operacionais"
                    ELSE "none"

\* A statement over groups whose labels hold the keywords of two lines (a
\* deduction that also reads as an expense, a cost that also reads as an
\* expense) and a group of no line.
C25_Witness ==
    /\ result.op = "calculate_dre"
    /\ LET detail == result.value.detalhamento
       IN /\ \E g \in 1..Len(detail) :
                IsDeduction(detail[g]) /\ IsExpense(detail[g])
          /\ \E g \in 1..Len(detail) :
                IsCost(detail[g]) /\ IsExpense(detail[g])
          /\ \E g \in 1..Len(detail) :
                /\ ~IsRevenue(detail[g]) /\ ~IsDeduction(detail[g])
                /\ ~IsCost(detail[g]) /\ ~IsExpense(detail[g])
    /\ result.value.deducoes > 0
    /\ result.value.custos > 0
    /\ result.value.despesas_operacionais = 0

\* Whether a top list has at most TopN entries in the order of decreasing
\* absolute amount.
TopOrdered(top) ==
    /\ Len(top) <= TopN
    /\ \A k \in 1..(Len(top) - 1) : Abs(top[k].valor) >= Abs(top[k + 1].valor)

\* Whether a category is an opening balance or a transfer between own
\* accounts.
OpeningOrTransfer(c) ==
    CategoryHas("Saldo Inicial", c) \/ CategoryHas("Transferencia Entre Contas", c)

\* C26: each of the two top lists of generate_summary has at most 5
\* transactions, in the order of decreasing absolute amount, and none of
\* them has an opening-balance or an inter-account-transfer category.
C26_TopLists ==
    (result.op = "generate_summary" /\ result.kind = "value") =>
        /\ TopOrdered(result.value.top_receitas)
        /\ TopOrdered(result.value.top_despesas)
        /\ \A k \in 1..Len(result.value.top_receitas) :
              ~OpeningOrTransfer(result.value.top_receitas[k].categoria)
        /\ \A k \in 1..Len(result.value.top_despesas) :
              ~OpeningOrTransfer(result.value.top_despesas[k].categoria)

(***************************************************************************)
(* Properties of the report requests.                                      *)
(***************************************************************************)
\* A report without the time it was generated at.
Undated(report) == [report EXCEPT !.data_geracao = 0]

\* C27: the financial report a downloaded PDF is built from is the report
\* of the table current_df holds at the download, whatever process, save,
\* report and download requests came before: never the report of an earlier
\* upload, nor of the categories as they were before a saved edit.
C27_PdfFromCurrentTable ==
    pdf.built =>
        LET fresh == generate_full_report(pdf.table, strict_min, 0).value
        IN /\ fresh.kind = "value"
           /\ Undated(pdf.report) = Undated(fresh.value)

\* The sum of the amounts of the rows of the table whose level n1 is
\* present.
TaggedTotal(n1) ==
    LET e == enrich_with_plan(report_df)
    IN SumOver([i \in 1..Len(e) |-> e[i].valor],
               { i \in 1..Len(e) : e[i][n1] # NULL })

DetailTotal(detail) == SumSeq([g \in 1..Len(detail) |-> detail[g].valor])

\* C28: in the income statement and in the cash-flow statement the values
\* of the detail list add up to the amounts of all rows whose first level is
\* present, the rows without a second level among them: no such row is lost
\* in the grouping.
C28_DetailKeepsEveryTaggedRow ==
    /\ result.op = "calculate_dre" =>
          DetailTotal(result.value.detalhamento) = TaggedTotal("dre_n1")
    /\ result.op = "calculate_dfc" =>
          DetailTotal(result.value.detalhamento) = TaggedTotal("dfc_n1")

(***************************************************************************)
(* Properties of the fallback of the classifier.                           *)
(***************************************************************************)
\* The call of row i returned a category of the closed set.
AnsweredInSet(i) == Responded(i) /\ ~OutOfSet(i)

\* C29: a transaction gets the sentinel only if its call failed: when the
\* call of a dispatched transaction returns a category of the closed set,
\* the transaction ends with that category and its decision record has
\* method "ai", also when its description is missing or is not text.
C29_SentinelOnlyOnFailure ==
    pc = "done" =>
        \A i \in Rows :
            AnsweredInSet(i) =>
                /\ CategoryOf(current_df.rows, i) =
                      chain_out[i].response.classificacao_sugerida
                /\ \E p \in 1..Len(logger.decisions) :
                      decision_rows[p] = i /\ logger.decisions[p].method = "ai"

(***************************************************************************)
(* Termination of the dispatcher.                                          *)
(***************************************************************************)
\* Every permit of the semaphore is free or held by a task in flight.
PermitsAccounted ==
    pc = "running" => sem >= 0 /\ sem + Cardinality(InFlight) = max_concurrency

\* A task has left "created" only if its chunk is the current one or an
\* earlier one, and every task of an earlier chunk is done.
ChunksInOrder ==
    \A k \in 1..Len(indices) :
        /\ k <= start => st[k] = "done"
        /\ k > ChunkEnd => st[k] = "created"

\* At completion no call is outstanding and every permit is back.
QuietAtCompletion ==
    pc = "done" =>
        /\ \A k \in 1..Len(indices) : st[k] = "done"
        /\ Len(indices) > 0 => sem = max_concurrency

\* C30: when every call of the classifier returns or raises,
\* classificar_transacoes_df completes: a run that has started reaches its
\* end, also with more tasks in a chunk than permits and with calls that
\* raise; every permit taken is given back, a chunk starts only when every
\* task of the chunk before it is done, and no call is outstanding at the
\* end.
C30_RunCompletes ==
    /\ (pc = "running") ~> (pc = "done")
    /\ [](PermitsAccounted /\ ChunksInOrder /\ QuietAtCompletion)

\* A run of more than one chunk, with fewer permits than tasks in a chunk
\* and a call that raised, has completed.
C30_Witness ==
    /\ pc = "done"
    /\ Len(indices) > ChunkSize
    /\ max_concurrency < ChunkSize
    /\ \E i \in Rows : Raised(i)
    /\ \E i, j \in Rows : i # j /\ calls[i] > 0 /\ calls[j] > 0

====
